---- MODULE Spec2Model ----
(***************************************************************************)
(* Catalog reconciliation of phenrril/sales_cell: the admin import handler *)
(* (handleAdminImportCSV), the deterministic pass (importFromXLSXCombined  *)
(* followed by importFromPricesTextOnly), the AI path                      *)
(* (importFromNormalizedData) and the pure helpers they call.              *)
(*                                                                         *)
(* Text is a sequence of one-character strings, so that the helpers are    *)
(* computed character by character as the Go code computes them.           *)
(***************************************************************************)
EXTENDS Integers, Sequences, FiniteSets, TLC

(***************************************************************************)
(* Go's strings package, on sequences of characters.                       *)
(***************************************************************************)
UpperChars == <<"A","B","C","D","E","F","G","H","I","J","K","L","M",
                "N","O","P","Q","R","S","T","U","V","W","X","Y","Z">>
LowerChars == <<"a","b","c","d","e","f","g","h","i","j","k","l","m",
                "n","o","p","q","r","s","t","u","v","w","x","y","z">>

IsSpace(c) == c \in {" ", "\t", "\n", "\r"}
IsDigit(c) == c \in {"0","1","2","3","4","5","6","7","8","9"}

MinOf(S) == CHOOSE i \in S : \A j \in S : i <= j
MaxOf(S) == CHOOSE i \in S : \A j \in S : i >= j
Min(a, b) == IF a < b THEN a ELSE b

LowerCh(c) ==
  IF \E i \in 1..26 : UpperChars[i] = c
  THEN LowerChars[CHOOSE i \in 1..26 : UpperChars[i] = c]
  ELSE c
UpperCh(c) ==
  IF \E i \in 1..26 : LowerChars[i] = c
  THEN UpperChars[CHOOSE i \in 1..26 : LowerChars[i] = c]
  ELSE c

\* SubSeq makes the result an explicit sequence (TLC keeps a bare function
\* constructor unevaluated and recomputes it at every use)
ToLower(s) == SubSeq([i \in 1..Len(s) |-> LowerCh(s[i])], 1, Len(s))
ToUpper(s) == SubSeq([i \in 1..Len(s) |-> UpperCh(s[i])], 1, Len(s))
EqualFold(a, b) == ToLower(a) = ToLower(b)

\* s[i..j-1] matches sub at position i
HasAt(s, i, sub) ==
  /\ i >= 1
  /\ i + Len(sub) - 1 <= Len(s)
  /\ \A k \in 1..Len(sub) : s[i + k - 1] = sub[k]

Contains(s, sub) == \E i \in 1..(Len(s) - Len(sub) + 1) : HasAt(s, i, sub)

\* strings.Index, 1-based; 0 when absent
Index(s, sub) ==
  IF Contains(s, sub)
  THEN MinOf({i \in 1..(Len(s) - Len(sub) + 1) : HasAt(s, i, sub)})
  ELSE 0

HasSuffix(s, suf) == Len(suf) <= Len(s) /\ HasAt(s, Len(s) - Len(suf) + 1, suf)

\* the part of s from its first to its last position in keep
Between(s, keep) ==
  IF keep = {} THEN <<>> ELSE SubSeq(s, MinOf(keep), MaxOf(keep))
\* strings.Trim(s, cutset): cut leading and trailing characters of the cutset
TrimSet(s, cut) == Between(s, {i \in 1..Len(s) : s[i] \notin cut})
TrimSpace(s) == TrimSet(s, {" ", "\t", "\n", "\r"})

\* strings.ReplaceAll for a non-empty old
ReplaceAll(s, old, new) ==
  LET f[i \in 1..(Len(s) + 1)] ==
        IF i > Len(s) THEN <<>>
        ELSE IF HasAt(s, i, old) THEN new \o f[i + Len(old)]
        ELSE <<s[i]>> \o f[i + 1]
  IN f[1]

\* end of the field that starts at i
FieldEnd(s, i) == MinOf({j \in i..Len(s) : j = Len(s) \/ IsSpace(s[j + 1])})
\* strings.Fields: the maximal runs of non-space characters
Fields(s) ==
  LET f[i \in 1..(Len(s) + 1)] ==
        IF i > Len(s) THEN <<>>
        ELSE IF IsSpace(s[i]) THEN f[i + 1]
        ELSE <<SubSeq(s, i, FieldEnd(s, i))>> \o f[FieldEnd(s, i) + 1]
  IN f[1]

\* strings.Join
Join(parts, sep) ==
  LET f[i \in 0..Len(parts)] ==
        IF i = 0 THEN <<>>
        ELSE IF i = 1 THEN parts[1]
        ELSE f[i - 1] \o sep \o parts[i]
  IN f[Len(parts)]

\* position of the line break that ends the line starting at i
LineEnd(s, i) == MinOf({j \in i..(Len(s) + 1) : j = Len(s) + 1 \/ s[j] = "\n"})
\* strings.Split(s, "\n")
SplitLines(s) ==
  LET f[i \in 1..(Len(s) + 2)] ==
        IF i > Len(s) + 1 THEN <<>>
        ELSE <<SubSeq(s, i, LineEnd(s, i) - 1)>> \o f[LineEnd(s, i) + 1]
  IN f[1]

\* regexp.ReplaceAllString: M(s, i) is the end (exclusive) of the match that
\* starts at i, or 0; R(s, i, e) is what replaces s[i..e-1].  Matches are
\* taken leftmost first and do not overlap.
ReplaceAllRe(s, M(_, _), R(_, _, _)) ==
  LET f[i \in 1..(Len(s) + 1)] ==
        IF i > Len(s) THEN <<>>
        ELSE IF M(s, i) > i THEN R(s, i, M(s, i)) \o f[M(s, i)]
        ELSE <<s[i]>> \o f[i + 1]
  IN f[1]

\* end (exclusive) of the longest run of characters satisfying P from i on
RunEnd(s, i, P(_)) == MinOf({j \in i..(Len(s) + 1) : j = Len(s) + 1 \/ ~P(s[j])})

SpacesEnd(s, i) == RunEnd(s, i, IsSpace)
DigitsEnd(s, i) == RunEnd(s, i, IsDigit)

(***************************************************************************)
(* Name helpers of the import.                                             *)
(***************************************************************************)

\* after TrimSpace(ToUpper(s)): not empty and no digit
NoDigits(s) == s # <<>> /\ \A i \in 1..Len(s) : ~IsDigit(s[i])
isSectionTitle(s) == NoDigits(TrimSpace(ToUpper(s)))

\* `\([^)]*\)` at j: the position after the first ")" that follows, or 0
ParenClose(s, j) ==
  IF j <= Len(s) /\ s[j] = "(" /\ \E k \in (j + 1)..Len(s) : s[k] = ")"
  THEN 1 + MinOf({k \in (j + 1)..Len(s) : s[k] = ")"})
  ELSE 0
\* regexp `\s*\([^)]*\)` : end of the match starting at i, or 0
ParenEnd(s, i) == ParenClose(s, SpacesEnd(s, i))
SpacesAfter(s, e) == IF e = 0 THEN 0 ELSE SpacesEnd(s, e)
\* regexp `\s*\([^)]*\)\s*`
ParenSpEnd(s, i) == SpacesAfter(s, ParenEnd(s, i))

removeColors == <<
  <<"n","e","g","r","o">>, <<"b","l","a","c","k">>, <<"b","l","a","n","c","o">>,
  <<"w","h","i","t","e">>, <<"a","z","u","l">>, <<"b","l","u","e">>,
  <<"r","o","s","a">>, <<"p","i","n","k">>, <<"a","m","a","r","i","l","l","o">>,
  <<"y","e","l","l","o","w">>, <<"v","e","r","d","e">>, <<"g","r","e","e","n">>,
  <<"s","i","l","v","e","r">>, <<"s","t","a","r","l","i","g","h","t">>, <<"m","i","d","n","i","g","h","t">>,
  <<"p","u","r","p","l","e">>, <<"p","ú","r","p","u","r","a">>, <<"m","o","r","a","d","o">>,
  <<"s","p","a","c","e">>, <<"g","r","a","y">>, <<"g","r","e","y">>,
  <<"g","r","i","s">>, <<"o","r","o">>, <<"g","o","l","d">>,
  <<"r","e","d">>, <<"r","o","j","o">>, <<"o","r","a","n","g","e">>,
  <<"n","a","r","a","n","j","a">>, <<"c","o","r","a","l">>, <<"a","r","e","n","a">>,
  <<"s","a","n","d">>, <<"c","o","s","m","i","c">>, <<"d","e","e","p">>,
  <<"p","e","a","r","l">>, <<"p","e","r","l","a","d","o">>, <<"o","s","c","u","r","o">>,
  <<"d","a","r","k">>, <<"l","i","g","h","t">>, <<"c","l","a","r","o">> >>

inferColors == <<
  <<"N","e","g","r","o">>, <<"B","l","a","c","k">>, <<"B","l","a","n","c","o">>,
  <<"W","h","i","t","e">>, <<"A","z","u","l">>, <<"B","l","u","e">>,
  <<"R","o","s","a">>, <<"P","i","n","k">>, <<"A","m","a","r","i","l","l","o">>,
  <<"Y","e","l","l","o","w">>, <<"V","e","r","d","e">>, <<"G","r","e","e","n">>,
  <<"S","i","l","v","e","r">>, <<"S","t","a","r","l","i","g","h","t">>, <<"M","i","d","n","i","g","h","t">>,
  <<"P","u","r","p","l","e">>, <<"S","p","a","c","e"," ","G","r","a","y">>, <<"S","p","a","c","e"," ","B","l","a","c","k">>,
  <<"N","a","t","u","r","a","l">>, <<"S","a","g","e"," ","G","r","e","e","n">>, <<"M","i","s","t"," ","B","l","u","e">>,
  <<"L","a","v","e","n","d","e","r">> >>

matchSuffixes == <<
  <<" ","5","g"," ","d","s">>, <<" ","4","g"," ","d","s">>, <<" ","5","g">>, <<" ","4","g">>,
  <<" ","d","s">>, <<" ","w","i","f","i">>, <<" ","w","i","-","f","i">>, <<" ","l","t","e">> >>

\* "for _, c := range colors": last == c || strings.Contains(last, c)
IsColorWord(w) ==
  \E i \in 1..Len(removeColors) : w = removeColors[i] \/ Contains(w, removeColors[i])
HasColorWord(w) ==
  \E i \in 1..Len(removeColors) : Contains(w, removeColors[i])
Prefix(parts, n) == TrimSpace(Join(SubSeq(parts, 1, n), <<" ">>))

\* the name without a colour in its last word or its last two words
DropColorWords(s, parts) ==
  IF Len(parts) = 0 THEN s
  ELSE IF IsColorWord(ToLower(parts[Len(parts)]))
       THEN Prefix(parts, Len(parts) - 1)
  ELSE IF /\ Len(parts) >= 2
          /\ HasColorWord(ToLower(parts[Len(parts) - 1] \o <<" ">> \o parts[Len(parts)]))
       THEN Prefix(parts, Len(parts) - 2)
  ELSE s
DropColor(s) == DropColorWords(s, Fields(s))
removeColorFromName(s) == DropColor(TrimSpace(ReplaceAllRe(s, ParenSpEnd, LAMBDA t, i, e : <<" ">>)))

FirstColor(hits) == IF hits = {} THEN <<>> ELSE inferColors[MinOf(hits)]
ColorHits(ls) == {i \in 1..Len(inferColors) : Contains(ls, ToLower(inferColors[i]))}
inferColorFromName(s) == FirstColor(ColorHits(ToLower(s)))

\* `\.\d+\s*"` from j on, after digits from i to j: the end, or 0
InchFraction(s, i, j) ==
  IF /\ j > i
     /\ j <= Len(s) /\ s[j] = "."
     /\ DigitsEnd(s, j + 1) > j + 1
     /\ SpacesEnd(s, DigitsEnd(s, j + 1)) <= Len(s)
     /\ s[SpacesEnd(s, DigitsEnd(s, j + 1))] = "\""
  THEN SpacesEnd(s, DigitsEnd(s, j + 1)) + 1 ELSE 0
\* regexp `(\d+)\.\d+\s*"`
InchDecimalEnd(s, i) == InchFraction(s, i, DigitsEnd(s, i))
\* `\s+"` from j on, after digits from i to j
InchQuote(s, i, j) ==
  IF /\ j > i /\ SpacesEnd(s, j) > j
     /\ SpacesEnd(s, j) <= Len(s) /\ s[SpacesEnd(s, j)] = "\""
  THEN SpacesEnd(s, j) + 1 ELSE 0
\* regexp `(\d+)\s+"`
InchSpaceEnd(s, i) == InchQuote(s, i, DigitsEnd(s, i))

unitsCapacity == << <<"G","B">>, <<"T","B">>, <<"M","H","z">>, <<"m","m">> >>
unitsRatio == << <<"G","B">>, <<"T","B">> >>
\* length of the first unit of the list that stands at j; 0 when none does
UnitLen(s, j, units) ==
  IF \E u \in 1..Len(units) : HasAt(s, j, units[u])
  THEN Len(units[MinOf({u \in 1..Len(units) : HasAt(s, j, units[u])})])
  ELSE 0
CapacityUnit(s, i, j) ==
  IF j > i /\ UnitLen(s, j, unitsCapacity) > 0
  THEN j + UnitLen(s, j, unitsCapacity) ELSE 0
\* regexp `(\d+)(GB|TB|MHz|mm)`
CapacityEnd(s, i) == CapacityUnit(s, i, DigitsEnd(s, i))
SplitAt(s, i, j, e) == SubSeq(s, i, j - 1) \o <<" ">> \o SubSeq(s, j, e - 1)
\* `\s*(GB|TB)` from k on
RatioUnit(s, m) ==
  IF UnitLen(s, m, unitsRatio) > 0 THEN m + UnitLen(s, m, unitsRatio) ELSE 0
\* `/(\d+)\s*(GB|TB)` from j on, after digits from i to j
RatioTail(s, i, j) ==
  IF j > i /\ j <= Len(s) /\ s[j] = "/" /\ DigitsEnd(s, j + 1) > j + 1
  THEN RatioUnit(s, SpacesEnd(s, DigitsEnd(s, j + 1)))
  ELSE 0
\* regexp `(\d+)/(\d+)\s*(GB|TB)`
RatioEnd(s, i) == RatioTail(s, i, DigitsEnd(s, i))
RatioJoin(s, i, k, e) == SubSeq(s, i, k - 1) \o <<" ">> \o SubSeq(s, SpacesEnd(s, k), e - 1)

\* the steps of normalizeBaseKey, in the order of the code
FixInches(s) ==
  ReplaceAll(ReplaceAllRe(ReplaceAllRe(ReplaceAll(TrimSpace(s), <<"\t">>, <<" ">>),
                                       InchDecimalEnd, LAMBDA t, i, e : SubSeq(t, i, DigitsEnd(t, i) - 1) \o <<"\"">>),
                          InchSpaceEnd, LAMBDA t, i, e : SubSeq(t, i, DigitsEnd(t, i) - 1) \o <<"\"">>),
             <<"'">>, <<"\"">>)
DropParens(s) == Join(Fields(ReplaceAllRe(s, ParenSpEnd, LAMBDA t, i, e : <<" ">>)), <<" ">>)
SpaceUnits(s) ==
  ReplaceAllRe(ReplaceAllRe(s, CapacityEnd,
                            LAMBDA t, i, e : SplitAt(t, i, DigitsEnd(t, i), e)),
               RatioEnd,
               LAMBDA t, i, e : RatioJoin(t, i, DigitsEnd(t, DigitsEnd(t, i) + 1), e))
FixWifi(s) ==
  ReplaceAll(ReplaceAll(ReplaceAll(s, <<"W","i","f","i">>, <<"W","i","F","i">>), <<"w","i","f","i">>, <<"W","i","F","i">>),
             <<"w","i","-","f","i">>, <<"W","i","F","i">>)
OneSpace(s) == Join(Fields(ReplaceAll(s, <<" "," ">>, <<" ">>)), <<" ">>)
normalizeBaseKey(s) == OneSpace(FixWifi(SpaceUnits(DropParens(FixInches(s)))))

slugify(s) == ToLower(ReplaceAll(TrimSpace(s), <<" ">>, <<"-">>))

BrandModel(parts) ==
  IF Len(parts) = 0 THEN [brand |-> <<>>, model |-> <<>>]
  ELSE [brand |-> parts[1],
        model |-> TrimSpace(Join(SubSeq(parts, 2, Len(parts)), <<" ">>))]
inferBrandModel(s) == BrandModel(Fields(s))

StockOf(s) ==
  IF s = <<>> THEN 0
  ELSE IF Contains(s, <<"s","i","n">>) THEN 0
  ELSE IF Contains(s, <<"b","a","j","o">>) THEN 2
  ELSE 10
mapStock(s) == StockOf(TrimSpace(ToLower(s)))

(***************************************************************************)
(* parseUSDPrices: price text -> map canonical key -> USD.                 *)
(* USD amounts are whole dollars: the price tokens of the modelled price   *)
(* lists carry no decimal point (ParseUSD gives the integer part).         *)
(***************************************************************************)
DigitVal(c) ==
  (CHOOSE i \in 1..10 : <<"0","1","2","3","4","5","6","7","8","9">>[i] = c) - 1
IsPriceChar(c) == IsDigit(c) \/ c = "." \/ c = ","

PriceDigits(s, i, j) ==
  IF s[i] = "$" /\ j <= Len(s) /\ IsDigit(s[j])
  THEN RunEnd(s, j, IsPriceChar) ELSE 0
\* regexp `\$\s*([0-9][0-9.,]*)`: end of the match starting at i, or 0
PriceEnd(s, i) == PriceDigits(s, i, SpacesEnd(s, i + 1))

IntValue(int) ==
  LET val[i \in 0..Len(int)] ==
        IF i = 0 THEN 0 ELSE val[i - 1] * 10 + DigitVal(int[i])
  IN val[Len(int)]
FloatOf(str, dots) ==
  IF Cardinality(dots) > 1 THEN 0
  ELSE IntValue(IF dots = {} THEN str ELSE SubSeq(str, 1, MinOf(dots) - 1))
\* strconv.ParseFloat of the captured group; 0 stands for the ignored error
ParseUSD(str) == FloatOf(str, {i \in 1..Len(str) : str[i] = "."})

\* m := priceRe.FindStringSubmatch(l): m[1] of the leftmost match at i0
PriceGroup(l, i0) == SubSeq(l, SpacesEnd(l, i0 + 1), PriceEnd(l, i0) - 1)
PriceOfLine(l, starts) ==
  IF starts = {} THEN 0
  ELSE ParseUSD(ReplaceAll(PriceGroup(l, MinOf(starts)), <<",">>, <<>>))
NameOfLine(l) ==
  TrimSet(TrimSpace(ReplaceAllRe(l, PriceEnd, LAMBDA t, i, e : <<>>)), {"-", ":", "\t", " "})
Entry(matched, key, usd) ==
  IF matched /\ key # <<>> /\ usd > 0
  THEN [ok |-> TRUE, key |-> key, usd |-> usd]
  ELSE [ok |-> FALSE]
EntryOf(l, starts) ==
  Entry(starts # {}, normalizeBaseKey(NameOfLine(l)), PriceOfLine(l, starts))
ParseTrimmed(l) ==
  IF l = <<>> THEN [ok |-> FALSE]
  ELSE IF \/ Contains(ToLower(l), <<"s","i","n"," ","s","t","o","c","k">>)
          \/ Contains(ToLower(l), <<"s","i","n"," ","p","r","e","c","i","o">>)
       THEN [ok |-> FALSE]
  ELSE EntryOf(l, {i \in 1..Len(l) : PriceEnd(l, i) > 0})
\* one line of the price text: the entry it adds to the map, if any
parseLine(ln) == ParseTrimmed(TrimSpace(ln))

EmptyMap == <<>>
MapPut(m, k, v) == (k :> v) @@ m
MapGet(m, k) == IF k \in DOMAIN m THEN m[k] ELSE 0
\* an explicit copy of a function given by a constructor (evaluated once)
Table(f) == f @@ <<>>

\* the map when the first line of a key wins
KeepFirst(m, e) == IF e.ok /\ e.key \notin DOMAIN m THEN MapPut(m, e.key, e.usd) ELSE m
AddEntry(m, e) == IF e.ok THEN MapPut(m, e.key, e.usd) ELSE m
ParseLines(lines) ==
  LET res[i \in 0..Len(lines)] ==
        IF i = 0 THEN EmptyMap ELSE AddEntry(res[i - 1], parseLine(lines[i]))
  IN res[Len(lines)]
parseUSDPrices(text) ==
  IF TrimSpace(text) = <<>> THEN EmptyMap ELSE ParseLines(SplitLines(text))

(***************************************************************************)
(* matchUSDPrice: the tiered matcher.  Tiers 2 and 3 range over the Go     *)
(* map, whose iteration order is unspecified: the operator gives the set   *)
(* of prices the call can return.                                          *)
(***************************************************************************)
\* `(a\d+)` from d on, after "ipad", blanks up to b, digits up to c, blanks up to d
IpadChip(s, b, c, d) ==
  IF /\ c > b /\ d > c
     /\ d <= Len(s) /\ s[d] = "a"
     /\ DigitsEnd(s, d + 1) > d + 1
  THEN DigitsEnd(s, d + 1) ELSE 0
IpadSize(s, b, c) == IpadChip(s, b, c, SpacesEnd(s, c))
IpadTail(s, a, b) == IF b > a THEN IpadSize(s, b, DigitsEnd(s, b)) ELSE 0
\* regexp `ipad\s+(\d+)\s+(a\d+)`
IpadEnd(s, i) ==
  IF HasAt(s, i, <<"i","p","a","d">>) THEN IpadTail(s, i + 4, SpacesEnd(s, i + 4)) ELSE 0
IpadParts(s, b, c, e) ==
  <<"i","p","a","d"," ">> \o SubSeq(s, SpacesEnd(s, c), e - 1) \o <<" ">> \o SubSeq(s, b, c - 1)
IpadFrom(s, b, e) == IpadParts(s, b, DigitsEnd(s, b), e)

\* "for _, suf := range suffixes { s = strings.TrimSuffix(s, suf) }"
TrimSuffixes(s, sufs) ==
  LET f[i \in 0..Len(sufs)] ==
        IF i = 0 THEN s
        ELSE IF HasSuffix(f[i - 1], sufs[i])
             THEN SubSeq(f[i - 1], 1, Len(f[i - 1]) - Len(sufs[i]))
             ELSE f[i - 1]
  IN f[Len(sufs)]

DropInches(s) ==
  ReplaceAll(ReplaceAllRe(ReplaceAllRe(ToLower(s), ParenEnd, LAMBDA t, i, e : <<>>),
                          InchDecimalEnd, LAMBDA t, i, e : SubSeq(t, i, DigitsEnd(t, i) - 1)),
             <<"\"">>, <<>>)
\* the closure `normalize` of matchUSDPrice (the comparison form)
normalize(s) ==
  TrimSpace(ReplaceAllRe(
    Join(Fields(ReplaceAll(TrimSuffixes(DropInches(s), matchSuffixes), <<"+">>, <<" ">>)), <<" ">>),
    IpadEnd, LAMBDA t, i, e : IpadFrom(t, SpacesEnd(t, i + 4), e)))

FirstWords(words) == SubSeq(words, 1, Min(3, Len(words)))

\* the inner test of tier 3, on the words of both sides
WordsMatch(baseWords, kWords) ==
  /\ Len(kWords) >= 2
  /\ Cardinality({i \in 1..Min(3, Len(kWords)) :
                    kWords[i] \in {baseWords[j] : j \in 1..Min(3, Len(baseWords))}}) >= 2
  /\ Len(Join(FirstWords(baseWords), <<" ">>)) > 8
  /\ Len(Join(FirstWords(kWords), <<" ">>)) > 8
KeyMatch(baseWords, kNorm) ==
  /\ Len(baseWords) >= 2
  /\ \/ Contains(kNorm, Join(FirstWords(baseWords), <<" ">>))
     \/ Contains(Join(FirstWords(baseWords), <<" ">>), kNorm)
  /\ WordsMatch(baseWords, Fields(kNorm))
\* the test of tier 3 for one key k of the map
PartialMatch(baseNorm, k) == KeyMatch(Fields(baseNorm), normalize(k))

Tiers(m, tier2, tier3) ==
  IF tier2 # {} THEN {m[k] : k \in tier2}
  ELSE IF tier3 # {} THEN {m[k] : k \in tier3}
  ELSE {0}
Fuzzy(m, baseNorm) ==
  Tiers(m, {k \in DOMAIN m : normalize(k) = baseNorm},
           {k \in DOMAIN m : PartialMatch(baseNorm, k)})
matchUSDPrice(m, baseKey) ==
  IF baseKey \in DOMAIN m THEN {m[baseKey]} ELSE Fuzzy(m, normalize(baseKey))

\* the reason when the first two words are not looked for
NotFound(text, parts) == "no_encontrado"
ReasonAbsent(text, parts) ==
  IF Len(parts) >= 2 /\ Contains(text, ToLower(parts[1] \o <<" ">> \o parts[2]))
  THEN "formato_diferente" ELSE "no_encontrado"
ReasonLower(baseKey, key, text) ==
  IF ~Contains(text, key) THEN ReasonAbsent(text, Fields(baseKey))
  \* pricesTextLower[idx:], cut to 150 characters
  ELSE IF Contains(SubSeq(text, Index(text, key), Min(Len(text), Index(text, key) + 149)),
                   <<"s","i","n"," ","s","t","o","c","k">>) THEN "sin_stock"
  ELSE "precio_invalido"
detectUnmatchReason(baseKey, pricesText) ==
  ReasonLower(baseKey, ToLower(baseKey), ToLower(pricesText))

(***************************************************************************)
(* Category of a price-list-only product (importFromPricesTextOnly).       *)
(***************************************************************************)
\* the lines that are not blank, trimmed
TrimLines(lines) ==
  LET f[i \in 0..Len(lines)] ==
        IF i = 0 THEN <<>>
        ELSE IF TrimSpace(lines[i]) = <<>> THEN f[i - 1]
        ELSE Append(f[i - 1], TrimSpace(lines[i]))
  IN f[Len(lines)]
\* currentSection when the loop reaches line i0
SectionAt(lines, secs) ==
  IF secs = {} THEN <<>> ELSE ToLower(lines[MaxOf(secs)])
SectionBefore(lines, i0) ==
  SectionAt(lines, {j \in 1..(i0 - 1) : isSectionTitle(lines[j])})
\* the first line that is no section title and contains the product
SectionOfHit(lines, hits) ==
  IF hits = {} THEN <<>> ELSE SectionBefore(lines, MinOf(hits))
SectionIn(lines, baseLower) ==
  SectionOfHit(lines, {i \in 1..Len(lines) :
                         /\ ~isSectionTitle(lines[i])
                         /\ Contains(ToLower(lines[i]), baseLower)})
\* the section of the price text in which the product's line stands
sectionOf(baseLower, pricesText) == SectionIn(TrimLines(SplitLines(pricesText)), baseLower)

HasAny(s, words) == \E i \in 1..Len(words) : Contains(s, words[i])

\* the fallback by name
CategoryByName(b) ==
  IF HasAny(b, <<<<"m","a","c","b","o","o","k">>, <<"n","o","t","e","b","o","o","k">>, <<"n","b"," ">>>>) THEN <<"n","o","t","e","b","o","o","k","s">>
  ELSE IF HasAny(b, <<<<"i","p","a","d">>, <<"t","a","b","l","e","t">>>>) THEN <<"t","a","b","l","e","t","s">>
  ELSE IF Contains(b, <<"w","a","t","c","h">>) /\ ~Contains(b, <<"i","p","h","o","n","e">>) THEN <<"p","e","n","c","i","l"," ","p","a","r","a"," ","i","p","a","d"," ","u","s","b","-","c">>
  ELSE IF HasAny(b, <<<<"a","i","r","p","o","d","s">>, <<"a","i","r","t","a","g">>, <<"p","e","n","c","i","l">>>>) THEN <<"p","e","n","c","i","l"," ","p","a","r","a"," ","i","p","a","d"," ","u","s","b","-","c">>
  ELSE IF Contains(b, <<"j","b","l">>)
       THEN IF Contains(b, <<"a","u","r","i">>) THEN <<"a","u","d","i","o","-","a","u","r","i","s">> ELSE <<"a","u","d","i","o","-","p","a","r","l","a","n","t","e","s">>
  ELSE IF HasAny(b, <<<<"p","s","5">>, <<"x","b","o","x">>, <<"n","i","n","t","e","n","d","o">>, <<"q","u","e","s","t">>>>) THEN <<"c","o","n","s","o","l","a","s","/","g","a","m","i","n","g">>
  ELSE IF HasAny(b, <<<<"a","m","a","z","f","i","t">>, <<"g","a","r","m","i","n">>, <<"s","m","a","r","t"," ","b","a","n","d">>, <<"g","a","l","a","x","y"," ","f","i","t">>,
                      <<"p","o","c","o"," ","w","a","t","c","h">>, <<"x","-","v","i","e","w">>>>) THEN <<"s","m","a","r","t","w","a","t","c","h","e","s">>
  ELSE IF HasAny(b, <<<<"e","c","h","o">>, <<"k","i","n","d","l","e">>, <<"g","o","p","r","o">>, <<"i","n","s","t","a","3","6","0">>>>) THEN <<"e","l","e","c","t","r","ó","n","i","c","a"," ","l","i","v","i","a","n","a">>
  ELSE <<>>
CategoryOr(sec, b) == IF sec # <<>> THEN sec ELSE CategoryByName(b)
inferCategory(baseKey, pricesText) ==
  CategoryOr(sectionOf(ToLower(baseKey), pricesText), ToLower(baseKey))

(***************************************************************************)
(* The requests of the model: spreadsheets, price texts, rates.            *)
(* A spreadsheet row is the sequence of its cells A, B, C, ... as          *)
(* excelize.GetRows returns it (trailing empty cells are not returned).    *)
(***************************************************************************)

\* one sheet: a section, two priced colour rows (one without stock cell),
\* two rows of a product the price lists do not carry
Sheet1 == <<
  <<<<>>, <<"C","E","L","U","L","A","R","E","S">>>>,
  <<<<>>, <<"M","o","t","o"," ","G","3","5">>, <<"N","e","g","r","o">>, <<>>, <<"D","i","s","p","o","n","i","b","l","e">>>>,
  <<<<>>, <<"M","o","t","o"," ","G","3","5">>, <<"A","z","u","l">>>>,
  <<<<>>, <<"N","o","k","i","a"," ","3","3","1","0">>, <<"N","e","g","r","o">>, <<"B","a","j","o">>>>,
  <<<<>>, <<"N","o","k","i","a"," ","3","3","1","0">>, <<"A","z","u","l">>, <<"B","a","j","o">>>> >>
\* a header row, the two watches, and a row whose colour is in the name
Sheet2 == <<
  <<<<>>, <<"R","E","L","O","J","E","S"," ","2","0","2","5">>, <<"C","o","l","o","r">>>>,
  <<<<>>, <<"W","a","t","c","h"," ","S","e","r","i","e"," ","1","0"," ","4","2","m","m">>, <<"N","e","g","r","o">>, <<>>, <<"S","i","n"," ","S","t","o","c","k">>>>,
  <<<<>>, <<"W","a","t","c","h"," ","S","e","r","i","e"," ","1","1"," ","4","2"," ","m","m">>, <<"N","e","g","r","o">>, <<>>, <<"D","i","s","p","o","n","i","b","l","e">>>> >>
\* two rows of one variant: the colour in the name, then in column C
Sheet3 == <<
  <<<<>>, <<"M","o","t","o"," ","G","3","5"," ","V","e","r","d","e">>, <<>>, <<>>, <<"B","a","j","o">>>>,
  <<<<>>, <<"M","o","t","o"," ","G","3","5">>, <<"v","e","r","d","e">>, <<"D","i","s","p","o","n","i","b","l","e">>>> >>
\* a data row that ends with its name cell
Sheet4 == <<
  <<<<>>, <<"M","o","t","o"," ","G","3","5">>, <<"N","e","g","r","o">>, <<"S","i","n"," ","S","t","o","c","k">>>>,
  <<<<>>, <<"M","o","t","o"," ","G","3","5"," ","A","z","u","l">>>> >>

\* a sheet with the one row of the end-to-end scenario
Sheet5 == <<
  <<<<>>, <<"M","o","t","o"," ","G","5","5"," ","8","/","2","5","6"," ","G","B"," ","5","G"," ","D","S">>, <<"N","e","g","r","o">>, <<"D","i","s","p","o","n","i","b","l","e">>>> >>

Readable(sheets) == [readable |-> TRUE, sheets |-> sheets]
\* bytes that are no spreadsheet container
Garbage == [readable |-> FALSE, sheets |-> <<>>]
Workbooks == {Readable(<<Sheet1, Sheet5>>), Readable(<<Sheet2, Sheet3>>), Readable(<<Sheet4>>)}
DataInputs == Workbooks \cup {Garbage}

PricesA == <<"R","E","L","O","J","E","S","\n","W","a","t","c","h"," ","S","e","r","i","e"," ","1","0"," ","4","2","m","m"," "," "," ","S","i","n"," ","S","t","o","c","k","\n","W","a","t","c","h"," ","S","e","r","i","e"," ","1","1"," ","4","2"," ","m","m"," "," "," ","$","4","4","6","\n","M","o","t","o"," ","G","3","5"," ","5","G"," ","$","2","0","0","\n","M","o","t","o"," ","G","5","5"," ","8","/","2","5","6"," ","G","B"," ","5","G"," ","D","S"," "," "," ","$","2","5","5","\n","M","a","c","b","o","o","k"," ","A","i","r"," ","1","3","\""," ","$","9","9","9">>
PricesB == <<"W","a","t","c","h"," ","S","e","r","i","e"," ","1","0"," ","4","2"," ","m","m"," ","S","i","n"," ","S","t","o","c","k","\n","W","a","t","c","h"," ","S","e","r","i","e"," ","1","0"," ","4","6"," ","m","m"," ","$","4","7","3","\n","W","a","t","c","h"," ","S","e","r","i","e"," ","1","0"," ","4","4"," ","m","m"," ","$","4","5","0","\n","M","o","t","o"," ","G","3","5",":"," ","$","2","1","0","\n","N","o","k","i","a"," ","3","3","1","0"," ","$","0">>
PricesEmpty == <<>>
PriceTexts == {PricesA, PricesB, PricesEmpty}

\* fx_rate and default_margin_pct of the form
Rates == {[fxRate |-> 1485, margin |-> 20], [fxRate |-> 1000, margin |-> 0]}

(***************************************************************************)
(* The catalog store (domain.Product, domain.Variant, domain.Image behind  *)
(* ProductUC / ProductRepo).  A record's ID is its index in creation       *)
(* order; nothing in the import deletes a record.                          *)
(***************************************************************************)
\* ProductUC.Create: the slug is derived from the name
CreateSlug(name) == ToLower(ReplaceAll(name, <<" ">>, <<"-">>))

\* ProductRepo.FindBySlug behind ProductUC.GetBySlug: the ID, or 0 for nil
GetBySlug(ps, slug) ==
  IF slug = <<>> THEN 0
  ELSE IF \E i \in 1..Len(ps) : ps[i].Slug = slug
       THEN CHOOSE i \in 1..Len(ps) : ps[i].Slug = slug
       ELSE 0

\* ProductUC.Create then ProductRepo.Save: insert or overwrite by ID; the
\* unique index on slug refuses a second product with the same slug (the
\* import ignores the error)
Create(ps, id, p) ==
  LET q == [p EXCEPT !.Slug = CreateSlug(p.Name)]
  IN IF \E i \in 1..Len(ps) : i # id /\ ps[i].Slug = q.Slug THEN ps
     ELSE IF id <= Len(ps) THEN [ps EXCEPT ![id] = q]
     ELSE Append(ps, q)

\* ProductRepo.ListVariants: the IDs of a product's variants, oldest first
ListVariants(vs, pid) == {i \in 1..Len(vs) : vs[i].ProductID = pid}

\* a deactivation that deletes the newest product
DeleteNewest(ps) == SubSeq(ps, 1, Len(ps) - 1)

\* a deactivation that changes nothing
KeepActive(ps) == ps

\* ProductRepo.MarkAllInactive
MarkAllInactive(ps) ==
  SubSeq([i \in 1..Len(ps) |-> [ps[i] EXCEPT !.Active = FALSE]], 1, Len(ps))

\* ProductRepo.GetInactiveSlugs
GetInactiveSlugs(ps) == {ps[i].Slug : i \in {j \in 1..Len(ps) : ~ps[j].Active}}

\* ProductRepo.List: "if f.IncludeInactive == nil || !*f.IncludeInactive
\* { q = q.Where("active = ?", true) }" (the other filters set aside)
List(ps, includeInactive) == {i \in 1..Len(ps) : includeInactive \/ ps[i].Active}

\* GET /product/<slug>: the product the page renders, 0 for 404
handleProduct(ps, slug) == IF slug = <<>> THEN 0 ELSE GetBySlug(ps, slug)

\* the first variant of the product whose colour equals color up to case and
\* surrounding blanks; 0 when there is none
FindVariantByColor(vs, pid, color) ==
  LET hits == {i \in ListVariants(vs, pid) :
                 EqualFold(TrimSpace(vs[i].Color), TrimSpace(color))}
  IN IF hits = {} THEN 0 ELSE CHOOSE i \in hits : \A j \in hits : i <= j

NewProduct(name, category, gross, margin, price) ==
  LET bm == inferBrandModel(name)
  IN [Slug |-> <<>>, Name |-> name, Category |-> category,
      Brand |-> bm.brand, Model |-> bm.model,
      GrossPrice |-> gross, MarginPct |-> margin, BasePrice |-> price,
      Active |-> TRUE]
NewVariant(pid, color, stock) ==
  [ProductID |-> pid, Color |-> color, Stock |-> stock, SKU |-> <<>>, EAN |-> <<>>]

\* gross := usd * fxRate
GrossOf(usd, fxRate) == usd * fxRate
\* the margin is not applied
NoMargin(gross, margin) == gross * 100

\* price := gross * (1.0 + margin/100.0), kept in hundredths
PriceOf(gross, margin) == gross * (100 + margin)

(***************************************************************************)
(* Stores the catalog can be in when an import arrives: empty, or holding  *)
(* the products of earlier imports with SKUs and images added since.       *)
(***************************************************************************)
OldProduct(name, category, usd) ==
  [NewProduct(name, category, GrossOf(usd, 1000), 0, PriceOf(GrossOf(usd, 1000), 0))
     EXCEPT !.Slug = CreateSlug(name)]
StoreEmpty == [products |-> <<>>, variants |-> <<>>, images |-> <<>>]
StoreOld ==
  [products |-> <<
     OldProduct(<<"M","o","t","o"," ","G","3","5">>, <<"c","e","l","u","l","a","r","e","s">>, 190),
     OldProduct(<<"W","a","t","c","h"," ","S","e","r","i","e"," ","1","0"," ","4","2"," ","m","m">>, <<"r","e","l","o","j","e","s">>, 400),
     OldProduct(<<"M","a","c","b","o","o","k"," ","A","i","r"," ","1","3","\"">>, <<>>, 900),
     OldProduct(<<"A","l","c","a","t","e","l"," ","1">>, <<"c","e","l","u","l","a","r","e","s">>, 50) >>,
   variants |-> <<
     [NewVariant(1, <<"N","e","g","r","o">>, 5) EXCEPT !.SKU = <<"S","K","U","-","1">>, !.EAN = <<"7","7","9">>],
     NewVariant(1, <<"R","o","j","o">>, 3),
     NewVariant(2, <<"n","e","g","r","o">>, 4),
     NewVariant(3, <<>>, 10),
     [NewVariant(4, <<"A","z","u","l">>, 7) EXCEPT !.SKU = <<"S","K","U","-","4">>],
     NewVariant(1, <<"A","z","u","l">>, 3) >>,
   images |-> <<
     [ProductID |-> 1, URL |-> <<"/","i","m","g","/","m","o","t","o",".","j","p","g">>],
     [ProductID |-> 4, URL |-> <<"/","i","m","g","/","a","l","c","a","t","e","l",".","j","p","g">>] >>]
InitStores == {StoreEmpty, StoreOld}

(***************************************************************************)
(* Spreadsheet rows as importFromXLSXCombined reads them.                  *)
(***************************************************************************)
Cell(row, i) == IF Len(row) >= i THEN TrimSpace(row[i]) ELSE <<>>

\* what the row loop does with one row, before any price is looked up
RowInfo(row) ==
  LET name == Cell(row, 2)
      color == Cell(row, 3)
      stockStr == IF Cell(row, 4) # <<>> THEN Cell(row, 4) ELSE Cell(row, 5)
      baseKey == normalizeBaseKey(removeColorFromName(name))
  IN IF Len(row) = 0 THEN [kind |-> "skip"]
     ELSE IF isSectionTitle(name)
          THEN [kind |-> "section", category |-> ToLower(TrimSpace(name))]
     ELSE IF name = <<>> THEN [kind |-> "skip"]
     \* row[2] is read without a length check: index out of range
     ELSE IF Len(row) < 3 THEN [kind |-> "panic"]
     ELSE IF EqualFold(TrimSpace(row[3]), <<"C","o","l","o","r">>) THEN [kind |-> "skip"]
     ELSE [kind |-> "data", name |-> name, baseKey |-> baseKey,
           slug |-> slugify(baseKey),
           color |-> IF color = <<>> THEN inferColorFromName(name) ELSE color,
           stockStr |-> stockStr, stock |-> mapStock(stockStr)]

\* the rows of all sheets in the order of the two loops; first marks the
\* first row of a sheet (category := "")
FlatRows(sheets) ==
  LET f[i \in 0..Len(sheets)] ==
        IF i = 0 THEN <<>>
        ELSE f[i - 1] \o
             SubSeq([j \in 1..Len(sheets[i]) |->
                       [row |-> sheets[i][j], first |-> j = 1]],
                    1, Len(sheets[i]))
  IN f[Len(sheets)]

\* usd := priceUSD[baseKey]; if usd <= 0, matchUSDPrice: the prices the row
\* can get (0: none)
rowPrice(priceUSD, baseKey) ==
  IF MapGet(priceUSD, baseKey) > 0 THEN {MapGet(priceUSD, baseKey)}
  ELSE matchUSDPrice(priceUSD, baseKey)

\* the base keys importFromPricesTextOnly collects from the spreadsheet
excelProducts(data) ==
  IF ~data.readable THEN {}
  ELSE LET rows == FlatRows(data.sheets)
           named == {i \in 1..Len(rows) :
                       /\ Len(rows[i].row) > 1
                       /\ Cell(rows[i].row, 2) # <<>>
                       /\ ~isSectionTitle(Cell(rows[i].row, 2))}
       IN {normalizeBaseKey(removeColorFromName(Cell(rows[i].row, 2))) : i \in named}

(***************************************************************************)
(* The helpers above are functions of the request alone: they are          *)
(* tabulated once over the requests of the model.                          *)
(***************************************************************************)
AllRows == UNION {UNION {{s[j] : j \in 1..Len(s)} : s \in {d.sheets[i] : i \in 1..Len(d.sheets)}} : d \in Workbooks}
rowInfoOf == Table([r \in AllRows |-> RowInfo(r)])
flatRowsOf == Table([d \in DataInputs |-> FlatRows(d.sheets)])
excelProductsOf == Table([d \in DataInputs |-> excelProducts(d)])
priceMapOf == Table([t \in PriceTexts |-> parseUSDPrices(t)])
RowKeys == {rowInfoOf[r].baseKey : r \in {x \in AllRows : rowInfoOf[x].kind = "data"}}
PriceKeys == UNION {DOMAIN priceMapOf[t] : t \in PriceTexts}
rowPriceOf == Table([t \in PriceTexts |-> Table([k \in RowKeys |-> rowPrice(priceMapOf[t], k)])])
reasonOf == Table([t \in PriceTexts |-> Table([k \in RowKeys |-> detectUnmatchReason(k, t)])])
categoryOf == Table([t \in PriceTexts |-> Table([k \in PriceKeys |-> inferCategory(k, t)])])
slugOf == Table([k \in PriceKeys |-> slugify(k)])

(***************************************************************************)
(* What the completion service can answer (normalizeWithOpenAI): the       *)
(* answer is outside the program, so the model draws it from a small set.  *)
(***************************************************************************)
NormVariant(color, stock) == [Color |-> color, Stock |-> stock]
NormProduct(usd, variantes) == [PrecioUSD |-> usd, Variantes |-> variantes]
AIOut1 ==
  MapPut(MapPut(EmptyMap,
    <<"M","o","t","o"," ","G","3","5">>, NormProduct(200, <<NormVariant(<<"N","e","g","r","o">>, <<"d","i","s","p","o","n","i","b","l","e">>),
                                    NormVariant(<<>>, <<"S","i","n"," ","S","t","o","c","k">>)>>)),
    <<"N","o","k","i","a"," ","3","3","1","0">>, NormProduct(0, <<NormVariant(<<"N","e","g","r","o">>, <<"d","i","s","p","o","n","i","b","l","e">>)>>))
AIOut2 ==
  MapPut(EmptyMap,
    <<"A","l","c","a","t","e","l"," ","1">>, NormProduct(55, <<NormVariant(<<"a","z","u","l">>, <<>>)>>))
AIOutputs == {AIOut1, AIOut2}

(***************************************************************************)
(* Requests: the multipart form of POST /admin/import.                     *)
(***************************************************************************)
Request(d, t, r, ai) ==
  [data |-> d, pricesText |-> t, fxRate |-> r.fxRate, margin |-> r.margin,
   useOpenAI |-> ai]
\* on the AI path the price text is only copied into the prompt: one text
Requests ==
  {Request(d, t, r, FALSE) : d \in DataInputs, t \in PriceTexts, r \in Rates}
    \cup {Request(d, PricesA, r, TRUE) : d \in DataInputs, r \in Rates}

(***************************************************************************)
(* State.                                                                  *)
(***************************************************************************)
\* requests served by the admin import handler over the run
MaxPasses == 2

\* the goroutines net/http can run handleAdminImportCSV on
Handlers == {1, 2}

VARIABLES
  products,    \* the products table
  variants,    \* the variants table
  images,      \* the images table
  lastImport,  \* Server.lastImport
  pc,          \* where each handler stands in handleAdminImportCSV
  loc,         \* the locals of each handler's call
  resp,        \* the response each handler wrote last
  passes,      \* requests received so far
  hist,        \* per handler, the record of its current call
  input,       \* the argument of a function of the import called on its own
  output       \* what the function returned for it

vars == <<products, variants, images, lastImport, pc, loc, resp, passes, hist,
          input, output>>

Nil == [nil |-> TRUE]

\* &ImportReport{Timestamp: time.Now(), UnmatchedItems: ..., UnmatchedReasons: ...}
\* (the clock is the number of the request)
NewReport(now) ==
  [Timestamp |-> now,
   CreatedProducts |-> 0, UpdatedProducts |-> 0,
   CreatedVariants |-> 0, UpdatedVariants |-> 0,
   UnmatchedPrices |-> 0, DeprecatedProducts |-> 0,
   UnmatchedItems |-> EmptyMap, UnmatchedReasons |-> EmptyMap,
   CreatedProductSlugs |-> <<>>, UpdatedProductSlugs |-> <<>>,
   DeprecatedSlugs |-> {},
   CreatedVariantKeys |-> <<>>, UpdatedVariantKeys |-> <<>>]

\* the locals of handleAdminImportCSV and of the import function it is in
IdleLoc ==
  [req |-> Request(Garbage, <<>>, [fxRate |-> 0, margin |-> 0], FALSE),
   priceUSD |-> EmptyMap, idx |-> 0, category |-> <<>>,
   createdP |-> 0, updatedP |-> 0, createdV |-> 0, updatedV |-> 0,
   unmatched |-> 0,
   rep |-> Nil, processedVariants |-> EmptyMap,
   excelProducts |-> {}, rest |-> {}, normalized |-> EmptyMap,
   apiKey |-> FALSE, totalBatches |-> 0, batchNum |-> 0]

\* what a call has done so far: the store it started from, the phases it
\* went through, one entry per spreadsheet data row, the products it
\* upserted and the keys it took as price-list-only entries; retry: the
\* call repeats the request of the call before it, which was answered 200;
\* norm: one entry per variant of the normalized products it imported;
\* batches: what each completion request it sent came to
IdleHist ==
  [pass |-> 0, pre |-> StoreEmpty, phases |-> <<>>, rows |-> <<>>,
   touched |-> {}, priceOnly |-> {}, retry |-> FALSE, norm |-> <<>>,
   batches |-> <<>>]

Init ==
  /\ \E s \in InitStores :
       /\ products = s.products
       /\ variants = s.variants
       /\ images = s.images
  /\ lastImport = Nil
  /\ pc = [h \in Handlers |-> "idle"]
  /\ loc = [h \in Handlers |-> IdleLoc]
  /\ resp = [h \in Handlers |-> Nil]
  /\ passes = 0
  /\ hist = [h \in Handlers |-> IdleHist]
  /\ input = <<>>
  /\ output = Nil

Phase(hs, name) ==
  IF hs.phases # <<>> /\ hs.phases[Len(hs.phases)] = name THEN hs
  ELSE [hs EXCEPT !.phases = Append(@, name)]

Free(h) == pc[h] \in {"idle", "done", "panicked"}

(***************************************************************************)
(* Upserts shared by the import functions.                                 *)
(***************************************************************************)
\* p, _ := GetBySlug(slug); if p == nil { Create(new) } else { update; Create(p) }
\* fill: "if p.Category == "" && category != "" { p.Category = category }"
UpsertProduct(ps, slug, baseKey, category, usd, fxRate, margin, fill) ==
  LET gross == GrossOf(usd, fxRate)
      price == PriceOf(gross, margin)
      id0 == GetBySlug(ps, slug)
  IN IF id0 = 0
     THEN [products |-> Create(ps, Len(ps) + 1,
                               NewProduct(baseKey, category, gross, margin, price)),
           id |-> Len(ps) + 1, created |-> TRUE]
     ELSE [products |->
             Create(ps, id0,
                    [ps[id0] EXCEPT !.GrossPrice = gross, !.MarginPct = margin,
                                    !.BasePrice = price, !.Active = TRUE,
                                    !.Category = IF fill /\ @ = <<>> /\ category # <<>>
                                                 THEN category ELSE @]),
           id |-> id0, created |-> FALSE]

\* the update without the guard: the stock of the row always wins
StockOverwritten(existing, stockStr, stock) == stock

\* "if strings.TrimSpace(stockStr) != "" && stock >= 0 { existing.Stock = stock }"
StockAfter(existing, stockStr, stock) ==
  IF TrimSpace(stockStr) # <<>> /\ stock >= 0 THEN stock ELSE existing

\* the variant block without the search: every row makes a variant
AppendVariant(vs, pid, color, stockStr, stock) ==
  [variants |-> Append(vs, NewVariant(pid, color, stock)), id |-> Len(vs) + 1, created |-> TRUE]

\* the variant block of the row loop
UpsertVariant(vs, pid, color, stockStr, stock) ==
  LET vid0 == FindVariantByColor(vs, pid, color)
  IN IF vid0 = 0
     THEN [variants |-> Append(vs, NewVariant(pid, color, stock)),
           id |-> Len(vs) + 1, created |-> TRUE]
     ELSE [variants |-> [vs EXCEPT ![vid0].Stock = StockAfter(@, stockStr, stock)],
           id |-> vid0, created |-> FALSE]

\* processedVariants[p.ID][strings.ToLower(strings.TrimSpace(color))] = true
MarkProcessed(pv, pid, color) ==
  MapPut(pv, pid, (IF pid \in DOMAIN pv THEN pv[pid] ELSE {})
                    \cup {ToLower(TrimSpace(color))})

\* the variants when PASO 1.5 is left out
NoSweep(vs, pv) == vs

\* PASO 1.5: stock 0 for the variants of processed products whose colour no
\* row named
SweepVariants(vs, pv) ==
  SubSeq([i \in 1..Len(vs) |->
            IF /\ vs[i].ProductID \in DOMAIN pv
               /\ ToLower(TrimSpace(vs[i].Color)) \notin pv[vs[i].ProductID]
            THEN [vs[i] EXCEPT !.Stock = 0]
            ELSE vs[i]],
         1, Len(vs))

\* the row is counted nowhere
CountNothing(rep, baseKey, reason) == rep
\* one entry per key whatever the number of its rows
CountOnce(rep, baseKey, reason) ==
  [rep EXCEPT !.UnmatchedItems = MapPut(@, baseKey, 1),
              !.UnmatchedReasons = MapPut(@, baseKey, reason)]

\* the row is counted and its reason forgotten
CountReasonless(rep, baseKey, reason) ==
  [rep EXCEPT !.UnmatchedItems = MapPut(@, baseKey, MapGet(@, baseKey) + 1)]
\* rep.UnmatchedItems[baseKey]++ and the first reason seen
CountUnmatched(rep, baseKey, reason) ==
  [rep EXCEPT
     !.UnmatchedItems = MapPut(@, baseKey, MapGet(@, baseKey) + 1),
     !.UnmatchedReasons = IF baseKey \in DOMAIN @ THEN @ ELSE MapPut(@, baseKey, reason)]

\* p.Slug + ":" + strings.TrimSpace(color)
VariantKey(slug, color) == slug \o <<":">> \o TrimSpace(color)

(***************************************************************************)
(* handleAdminImportCSV up to the choice of path.                          *)
(***************************************************************************)
\* fx_rate <= 0: 400, nothing is imported
RejectRequest(h) ==
  /\ Free(h)
  /\ passes < MaxPasses
  /\ passes' = passes + 1
  /\ pc' = [pc EXCEPT ![h] = "done"]
  /\ resp' = [resp EXCEPT ![h] = [status |-> 400]]
  /\ loc' = [loc EXCEPT ![h] = IdleLoc]
  /\ hist' = [hist EXCEPT ![h] = [IdleHist EXCEPT !.pass = passes + 1]]
  /\ UNCHANGED <<products, variants, images, lastImport>>
  /\ UNCHANGED <<input, output>>

\* a well-formed request: the form is read and the path chosen
Start(h, reqs) ==
  /\ Free(h)
  /\ passes < MaxPasses
  /\ \E rq \in reqs :
       /\ loc' = [loc EXCEPT ![h] = [IdleLoc EXCEPT !.req = rq]]
       /\ pc' = [pc EXCEPT ![h] = IF rq.useOpenAI THEN "openai" ELSE "parse"]
       /\ hist' = [hist EXCEPT ![h] =
                     [IdleHist EXCEPT !.pass = passes + 1,
                                      !.pre = [products |-> products,
                                               variants |-> variants,
                                               images |-> images],
                                      !.phases = <<"Start">>,
                                      !.retry = /\ pc[h] = "done"
                                                /\ resp[h].status = 200
                                                /\ loc[h].req = rq]]
  /\ passes' = passes + 1
  /\ resp' = [resp EXCEPT ![h] = Nil]
  /\ UNCHANGED <<products, variants, images, lastImport>>
  /\ UNCHANGED <<input, output>>

(***************************************************************************)
(* importFromXLSXCombined.                                                 *)
(***************************************************************************)
\* priceMap := parseUSDPrices(pricesText); excelize.OpenReader; on error the
\* function returns zeros and the handler goes on to importFromPricesTextOnly;
\* otherwise PASO 1, MarkAllInactive, and the report and maps are set up
OpenXLSX(h) ==
  /\ pc[h] = "parse"
  /\ LET L == loc[h]
         prices == priceMapOf[L.req.pricesText]
     IN IF ~L.req.data.readable
        THEN /\ loc' = [loc EXCEPT ![h].priceUSD = prices]
             /\ pc' = [pc EXCEPT ![h] = "pricesonly"]
             /\ UNCHANGED <<products, hist>>
        ELSE /\ products' = MarkAllInactive(products)
             /\ loc' = [loc EXCEPT ![h].priceUSD = prices,
                                   ![h].rep = NewReport(hist[h].pass),
                                   ![h].idx = 1]
             /\ pc' = [pc EXCEPT ![h] = "rows"]
             /\ hist' = [hist EXCEPT ![h] = Phase(@, "DeactivateAll")]
  /\ UNCHANGED <<variants, images, lastImport, resp, passes>>
  /\ UNCHANGED <<input, output>>

\* what one data row does to the store and to the locals, given the price
\* the lookup gave it (0: none)
RowEffect(ps, vs, L, info, category, usd) ==
  IF usd <= 0
  THEN [products |-> ps, variants |-> vs,
        loc |-> [L EXCEPT !.unmatched = @ + 1,
                          !.rep = CountUnmatched(@, info.baseKey,
                                                 reasonOf[L.req.pricesText][info.baseKey])],
        log |-> [key |-> info.baseKey, color |-> info.color,
                 stockStr |-> info.stockStr, usd |-> 0,
                 pid |-> 0, vid |-> 0, existed |-> FALSE, before |-> 0, after |-> 0]]
  ELSE LET up == UpsertProduct(ps, info.slug, info.baseKey, category, usd,
                               L.req.fxRate, L.req.margin, FALSE)
           slug == up.products[up.id].Slug
           uv == UpsertVariant(vs, up.id, info.color, info.stockStr, info.stock)
           rep1 == IF slug = <<>> THEN L.rep
                   ELSE IF up.created
                        THEN [L.rep EXCEPT !.CreatedProductSlugs = Append(@, slug)]
                        ELSE [L.rep EXCEPT !.UpdatedProductSlugs = Append(@, slug)]
           rep2 == IF slug = <<>> THEN rep1
                   ELSE IF uv.created
                        THEN [rep1 EXCEPT !.CreatedVariantKeys =
                                            Append(@, VariantKey(slug, info.color))]
                        ELSE [rep1 EXCEPT !.UpdatedVariantKeys =
                                            Append(@, VariantKey(slug, info.color))]
       IN [products |-> up.products, variants |-> uv.variants,
           loc |-> [L EXCEPT !.createdP = IF up.created THEN @ + 1 ELSE @,
                             !.updatedP = IF up.created THEN @ ELSE @ + 1,
                             !.createdV = IF uv.created THEN @ + 1 ELSE @,
                             !.updatedV = IF uv.created THEN @ ELSE @ + 1,
                             !.rep = rep2,
                             !.processedVariants = MarkProcessed(@, up.id, info.color)],
           log |-> [key |-> info.baseKey, color |-> info.color,
                    stockStr |-> info.stockStr, usd |-> usd,
                    pid |-> up.id, vid |-> uv.id, existed |-> ~uv.created,
                    before |-> IF uv.created THEN 0 ELSE vs[uv.id].Stock,
                    after |-> uv.variants[uv.id].Stock]]

\* one iteration of "for _, row := range rows" (over all sheets in order)
ProcessRow(h) ==
  /\ pc[h] = "rows"
  /\ LET L == loc[h]
         rows == flatRowsOf[L.req.data]
         fr == rows[L.idx]
         info == rowInfoOf[fr.row]
         category == IF fr.first THEN <<>> ELSE L.category
         next == IF L.idx = Len(rows) THEN "sweep" ELSE "rows"
     IN CASE info.kind = "skip" ->
               /\ loc' = [loc EXCEPT ![h].idx = @ + 1, ![h].category = category]
               /\ pc' = [pc EXCEPT ![h] = next]
               /\ hist' = [hist EXCEPT ![h] = Phase(@, "ProcessSpreadsheet")]
               /\ UNCHANGED <<products, variants>>
          [] info.kind = "section" ->
               /\ loc' = [loc EXCEPT ![h].idx = @ + 1, ![h].category = info.category]
               /\ pc' = [pc EXCEPT ![h] = next]
               /\ hist' = [hist EXCEPT ![h] = Phase(@, "ProcessSpreadsheet")]
               /\ UNCHANGED <<products, variants>>
          [] info.kind = "panic" ->
               \* index out of range: net/http recovers and drops the connection
               /\ pc' = [pc EXCEPT ![h] = "panicked"]
               /\ hist' = [hist EXCEPT ![h] = Phase(@, "ProcessSpreadsheet")]
               /\ UNCHANGED <<products, variants, loc>>
          [] info.kind = "data" ->
               \E usd \in rowPriceOf[L.req.pricesText][info.baseKey] :
                 LET e == RowEffect(products, variants,
                                    [L EXCEPT !.idx = @ + 1, !.category = category],
                                    info, category, usd)
                 IN /\ products' = e.products
                    /\ variants' = e.variants
                    /\ loc' = [loc EXCEPT ![h] = e.loc]
                    /\ pc' = [pc EXCEPT ![h] = next]
                    /\ hist' = [hist EXCEPT ![h] =
                                  [Phase(@, "ProcessSpreadsheet") EXCEPT
                                     !.rows = Append(@, e.log),
                                     !.touched = IF usd > 0 THEN @ \cup {e.log.pid}
                                                 ELSE @]]
  /\ UNCHANGED <<images, lastImport, resp, passes>>
  /\ UNCHANGED <<input, output>>

\* PASO 1.5
StockZeroSweep(h) ==
  /\ pc[h] = "sweep"
  /\ variants' = SweepVariants(variants, loc[h].processedVariants)
  /\ pc' = [pc EXCEPT ![h] = "deprecated"]
  /\ hist' = [hist EXCEPT ![h] = Phase(@, "StockZeroSweep")]
  /\ UNCHANGED <<products, images, lastImport, loc, resp, passes>>
  /\ UNCHANGED <<input, output>>

\* PASO 2: the report is completed and published, the function returns
ComputeDeprecated(h) ==
  /\ pc[h] = "deprecated"
  /\ LET L == loc[h]
         inactiveSlugs == GetInactiveSlugs(products)
         rep == [L.rep EXCEPT !.DeprecatedSlugs = inactiveSlugs,
                              !.CreatedProducts = L.createdP,
                              !.UpdatedProducts = L.updatedP,
                              !.CreatedVariants = L.createdV,
                              !.UpdatedVariants = L.updatedV,
                              !.UnmatchedPrices = L.unmatched,
                              !.DeprecatedProducts = Cardinality(inactiveSlugs)]
     IN /\ lastImport' = rep
        /\ loc' = [loc EXCEPT ![h].rep = rep]
  /\ pc' = [pc EXCEPT ![h] = "pricesonly"]
  /\ hist' = [hist EXCEPT ![h] = Phase(@, "ComputeDeprecated")]
  /\ UNCHANGED <<products, variants, images, resp, passes>>
  /\ UNCHANGED <<input, output>>

(***************************************************************************)
(* importFromPricesTextOnly.                                               *)
(***************************************************************************)
\* the spreadsheet is opened again and its base keys collected
EnterPricesTextOnly(h) ==
  /\ pc[h] = "pricesonly"
  /\ loc' = [loc EXCEPT ![h].excelProducts = excelProductsOf[loc[h].req.data],
                        ![h].rest = DOMAIN loc[h].priceUSD]
  /\ pc' = [pc EXCEPT ![h] = "textonly"]
  /\ hist' = [hist EXCEPT ![h] = Phase(@, "ProcessPriceOnlyEntries")]
  /\ UNCHANGED <<products, variants, images, lastImport, resp, passes>>
  /\ UNCHANGED <<input, output>>

\* one iteration of "for baseKey, usd := range priceUSD" (Go fixes no order)
ProcessPriceEntry(h) ==
  /\ pc[h] = "textonly"
  /\ \E baseKey \in loc[h].rest :
       LET L == loc[h]
           usd == L.priceUSD[baseKey]
       IN IF baseKey \in L.excelProducts \/ usd <= 0
          THEN /\ loc' = [loc EXCEPT ![h].rest = @ \ {baseKey}]
               /\ UNCHANGED <<products, variants, hist>>
          ELSE LET up == UpsertProduct(products, slugOf[baseKey], baseKey,
                                       categoryOf[L.req.pricesText][baseKey], usd,
                                       L.req.fxRate, L.req.margin, TRUE)
                   bare == ListVariants(variants, up.id) = {}
               IN /\ products' = up.products
                  /\ variants' = IF bare
                                 THEN Append(variants, NewVariant(up.id, <<>>, 10))
                                 ELSE variants
                  /\ loc' = [loc EXCEPT
                               ![h].rest = @ \ {baseKey},
                               ![h].createdP = IF up.created THEN @ + 1 ELSE @,
                               ![h].updatedP = IF up.created THEN @ ELSE @ + 1,
                               ![h].createdV = IF bare THEN @ + 1 ELSE @]
                  /\ hist' = [hist EXCEPT ![h].touched = @ \cup {up.id},
                                          ![h].priceOnly = @ \cup {baseKey}]
  /\ UNCHANGED <<pc, images, lastImport, resp, passes>>
  /\ UNCHANGED <<input, output>>

(***************************************************************************)
(* The response of handleAdminImportCSV.                                   *)
(***************************************************************************)
ReportOf(li) ==
  IF li = Nil THEN Nil
  ELSE [timestamp |-> li.Timestamp,
        unmatched_items |-> li.UnmatchedItems,
        deprecated_count |-> li.DeprecatedProducts,
        deprecated_slugs |-> li.DeprecatedSlugs]

\* the import function has returned: the counts and whatever s.lastImport
\* holds now are written with status 200
Respond(h) ==
  /\ pc[h] \in {"textonly", "respond"}
  /\ loc[h].rest = {}
  /\ resp' = [resp EXCEPT ![h] =
                [status |-> 200,
                 created_products |-> loc[h].createdP,
                 updated_products |-> loc[h].updatedP,
                 created_variants |-> loc[h].createdV,
                 updated_variants |-> loc[h].updatedV,
                 unmatched |-> loc[h].unmatched,
                 report |-> ReportOf(lastImport)]]
  /\ pc' = [pc EXCEPT ![h] = "done"]
  /\ hist' = [hist EXCEPT ![h] = Phase(@, "Done")]
  /\ UNCHANGED <<products, variants, images, lastImport, loc, passes>>
  /\ UNCHANGED <<input, output>>

(***************************************************************************)
(* The AI path: normalizeWithOpenAI, importFromNormalizedData.             *)
(***************************************************************************)
\* const batchSize = 50, scaled to the spreadsheets of the model
batchSize == 2

\* productGroups has one entry per name cell of the spreadsheet, the prompt
\* lists them, and totalBatches := (len(xlsxProducts) + batchSize - 1) / batchSize
totalBatches(data) ==
  LET rows == FlatRows(data.sheets)
      xlsxProducts ==
        {Cell(rows[i].row, 2) :
           i \in {j \in 1..Len(rows) :
                    /\ Len(rows[j].row) > 1
                    /\ Cell(rows[j].row, 2) # <<>>
                    /\ ~isSectionTitle(Cell(rows[j].row, 2))
                    /\ ~EqualFold(Cell(rows[j].row, 3), <<"C","o","l","o","r">>)}}
  IN (Cardinality(xlsxProducts) + batchSize - 1) \div batchSize

\* the key is checked but not the spreadsheet
NoKeyNeeded(apiKey, readable) == IF ~readable THEN "excelize" ELSE ""

\* the errors normalizeWithOpenAI returns before the first batch ("": none)
SetupError(apiKey, readable) ==
  IF ~apiKey THEN "OPENAI_API_KEY no configurada"
  ELSE IF ~readable THEN "excelize"
  ELSE ""

\* os.Getenv("OPENAI_API_KEY"), excelize.OpenReader, the product list; on
\* an error the handler answers 500 and returns
NormalizeWithOpenAI(h) ==
  /\ pc[h] = "openai"
  /\ \E apiKey \in BOOLEAN :
       LET data == loc[h].req.data
           err == SetupError(apiKey, data.readable)
           n == totalBatches(data)
       IN IF err # ""
          THEN /\ resp' = [resp EXCEPT ![h] = [status |-> 500, error |-> "openai_error",
                                                message |-> err]]
               /\ pc' = [pc EXCEPT ![h] = "done"]
               /\ loc' = [loc EXCEPT ![h].apiKey = apiKey]
          ELSE /\ loc' = [loc EXCEPT
                            ![h].apiKey = apiKey,
                            ![h].totalBatches = n,
                            ![h].batchNum = 0,
                            ![h].normalized = EmptyMap,
                            ![h].rest = {},
                            ![h].rep = IF n = 0 THEN NewReport(hist[h].pass) ELSE @]
               /\ pc' = [pc EXCEPT ![h] = IF n = 0 THEN "normalized" ELSE "batch"]
               /\ UNCHANGED resp
  /\ UNCHANGED <<products, variants, images, lastImport, passes, hist>>
  /\ UNCHANGED <<input, output>>

\* what a completion request can come to: an answer that parses, a request
\* error or timeout, no choice in the answer, an answer that is no JSON
BatchOutcomes == {"ok", "error", "empty", "json"}

\* a failed batch is passed over
IgnoreFailure(outcome) == ""

\* the error a batch ends the function with ("": none)
BatchError(outcome) ==
  CASE outcome = "error" -> "error en lote"
    [] outcome = "empty" -> "respuesta vacia de OpenAI en lote"
    [] outcome = "json" -> "error parseando JSON de OpenAI en lote"
    [] OTHER -> ""

\* one iteration of "for batchNum := 0; batchNum < totalBatches; batchNum++":
\* the request is sent; on an error the function returns it and the handler
\* answers 500; else the products of the answer go into allProducts, and
\* after the last batch importFromNormalizedData begins
SendBatch(h) ==
  /\ pc[h] = "batch"
  /\ \E outcome \in BatchOutcomes, out \in AIOutputs :
       LET L == loc[h]
           err == BatchError(outcome)
           allProducts == IF outcome = "ok" THEN out @@ L.normalized ELSE L.normalized
           last == L.batchNum + 1 = L.totalBatches
       IN /\ hist' = [hist EXCEPT ![h].batches = Append(@, outcome)]
          /\ IF err # ""
             THEN /\ resp' = [resp EXCEPT ![h] = [status |-> 500, error |-> "openai_error",
                                                message |-> err]]
                  /\ pc' = [pc EXCEPT ![h] = "done"]
                  /\ UNCHANGED loc
             ELSE /\ loc' = [loc EXCEPT
                               ![h].batchNum = @ + 1,
                               ![h].normalized = allProducts,
                               ![h].rest = IF last THEN DOMAIN allProducts ELSE {},
                               ![h].rep = IF last THEN NewReport(hist[h].pass) ELSE @]
                  /\ pc' = [pc EXCEPT ![h] = IF last THEN "normalized" ELSE "batch"]
                  /\ UNCHANGED resp
  /\ UNCHANGED <<products, variants, images, lastImport, passes>>
  /\ UNCHANGED <<input, output>>

\* color := TrimSpace(normVar.Color), "Default" when empty
NormColor(c) == IF TrimSpace(c) = <<>> THEN <<"D","e","f","a","u","l","t">> ELSE TrimSpace(c)
\* stock := 10, 0 when the stock text contains "sin"
NormStock(s) == IF Contains(ToLower(s), <<"s","i","n">>) THEN 0 ELSE 10

\* "for _, normVar := range normProd.Variantes": the variants after the loop,
\* how many were created, and what each iteration met and left
NormVariants(vs, pid, variantes) ==
  LET f[i \in 0..Len(variantes)] ==
        IF i = 0 THEN [variants |-> vs, created |-> 0, keys |-> <<>>]
        ELSE LET color == NormColor(variantes[i].Color)
                 stock == NormStock(variantes[i].Stock)
                 vid0 == FindVariantByColor(f[i - 1].variants, pid, color)
             IN IF vid0 = 0
                THEN [variants |-> Append(f[i - 1].variants, NewVariant(pid, color, stock)),
                      created |-> f[i - 1].created + 1,
                      keys |-> Append(f[i - 1].keys,
                                      [created |-> TRUE, color |-> color,
                                       stockStr |-> variantes[i].Stock, pid |-> pid,
                                       vid |-> Len(f[i - 1].variants) + 1,
                                       before |-> 0, after |-> stock])]
                ELSE [variants |-> [f[i - 1].variants EXCEPT ![vid0].Stock = stock],
                      created |-> f[i - 1].created,
                      keys |-> Append(f[i - 1].keys,
                                      [created |-> FALSE, color |-> color,
                                       stockStr |-> variantes[i].Stock, pid |-> pid,
                                       vid |-> vid0,
                                       before |-> f[i - 1].variants[vid0].Stock,
                                       after |-> stock])]
  IN f[Len(variantes)]

\* one iteration of "for baseKey, normProd := range normalized"
ImportNormalizedProduct(h) ==
  /\ pc[h] = "normalized"
  /\ \E baseKey \in loc[h].rest :
       LET L == loc[h]
           normProd == L.normalized[baseKey]
       IN IF normProd.PrecioUSD <= 0
          THEN /\ loc' = [loc EXCEPT
                            ![h].rest = @ \ {baseKey},
                            ![h].unmatched = @ + 1,
                            ![h].rep = CountUnmatched(@, baseKey, "openai_sin_precio")]
               /\ UNCHANGED <<products, variants, hist>>
          ELSE LET up == UpsertProduct(products, slugify(baseKey), baseKey, <<>>,
                                       normProd.PrecioUSD, L.req.fxRate,
                                       L.req.margin, FALSE)
                   slug == up.products[up.id].Slug
                   nv == NormVariants(variants, up.id, normProd.Variantes)
                   keysOf(c) ==
                     LET ix == {i \in 1..Len(nv.keys) : nv.keys[i].created = c}
                         g[i \in 0..Len(nv.keys)] ==
                           IF i = 0 THEN <<>>
                           ELSE IF i \in ix
                                THEN Append(g[i - 1], VariantKey(slug, nv.keys[i].color))
                                ELSE g[i - 1]
                     IN g[Len(nv.keys)]
               IN /\ products' = up.products
                  /\ variants' = nv.variants
                  /\ loc' = [loc EXCEPT
                       ![h].rest = @ \ {baseKey},
                       ![h].createdP = IF up.created THEN @ + 1 ELSE @,
                       ![h].updatedP = IF up.created THEN @ ELSE @ + 1,
                       ![h].createdV = @ + nv.created,
                       ![h].updatedV = @ + Len(normProd.Variantes) - nv.created,
                       ![h].rep = [@ EXCEPT
                          !.CreatedProductSlugs =
                             IF up.created /\ slug # <<>> THEN Append(@, slug) ELSE @,
                          !.UpdatedProductSlugs =
                             IF ~up.created /\ slug # <<>> THEN Append(@, slug) ELSE @,
                          !.CreatedVariantKeys =
                             IF slug # <<>> THEN @ \o keysOf(TRUE) ELSE @,
                          !.UpdatedVariantKeys =
                             IF slug # <<>> THEN @ \o keysOf(FALSE) ELSE @]]
                  /\ hist' = [hist EXCEPT ![h].touched = @ \cup {up.id},
                                          ![h].norm = @ \o nv.keys]
  /\ UNCHANGED <<pc, images, lastImport, resp, passes>>
  /\ UNCHANGED <<input, output>>

\* the end of importFromNormalizedData: the report is published
FinishNormalized(h) ==
  /\ pc[h] = "normalized"
  /\ loc[h].rest = {}
  /\ LET L == loc[h]
         rep == [L.rep EXCEPT !.CreatedProducts = L.createdP,
                              !.UpdatedProducts = L.updatedP,
                              !.CreatedVariants = L.createdV,
                              !.UpdatedVariants = L.updatedV,
                              !.UnmatchedPrices = L.unmatched]
     IN /\ lastImport' = rep
        /\ loc' = [loc EXCEPT ![h].rep = rep]
  /\ pc' = [pc EXCEPT ![h] = "respond"]
  /\ UNCHANGED <<products, variants, images, resp, passes, hist>>
  /\ UNCHANGED <<input, output>>

(***************************************************************************)
(* Specifications.                                                         *)
(***************************************************************************)
\* the deterministic path
StepXLSX(h) ==
  \/ OpenXLSX(h)
  \/ ProcessRow(h)
  \/ StockZeroSweep(h)
  \/ ComputeDeprecated(h)
  \/ EnterPricesTextOnly(h)
  \/ ProcessPriceEntry(h)

\* the AI path
StepAI(h) ==
  \/ NormalizeWithOpenAI(h)
  \/ SendBatch(h)
  \/ ImportNormalizedProduct(h)
  \/ FinishNormalized(h)

\* requests arrive one after the other (one admin, one connection)
Next ==
  \/ RejectRequest(1)
  \/ Start(1, Requests)
  \/ StepXLSX(1)
  \/ StepAI(1)
  \/ Respond(1)

Spec == Init /\ [][Next]_vars

\* two requests can be in the handler at once: net/http serves every
\* connection on its own goroutine and the Server holds no lock
ConcRequests ==
  {Request(Readable(<<Sheet1, Sheet5>>), PricesB, [fxRate |-> 1485, margin |-> 20], FALSE),
   Request(Readable(<<Sheet2, Sheet3>>), PricesEmpty, [fxRate |-> 1000, margin |-> 0], FALSE)}

NextConc ==
  \E h \in Handlers :
    \/ Start(h, ConcRequests)
    \/ StepXLSX(h)
    \/ Respond(h)

InitConc ==
  /\ Init
  /\ products = StoreOld.products

SpecConc == InitConc /\ [][NextConc]_vars

\* the functions of the import called on their own: the harness draws an
\* argument and calls the function once
NoCall == [fn |-> "", val |-> <<>>]

InitAlone(inputs) ==
  /\ products = StoreEmpty.products
  /\ variants = StoreEmpty.variants
  /\ images = StoreEmpty.images
  /\ lastImport = Nil
  /\ pc = [h \in Handlers |-> "idle"]
  /\ loc = [h \in Handlers |-> IdleLoc]
  /\ resp = [h \in Handlers |-> Nil]
  /\ passes = 0
  /\ hist = [h \in Handlers |-> IdleHist]
  /\ input \in inputs
  /\ output = NoCall

Called(fn, val) == [fn |-> fn, val |-> val]

\* every text of at most n pieces, the pieces joined by sep
Texts(pieces, n, sep) ==
  {Join(ps, sep) : ps \in UNION {[1..k -> pieces] : k \in 0..n}}

MaxPieces == 3
MaxWords == 4

\* pieces of product names: sizes in inches, capacities, groups, WiFi
NamePieces ==
  {<<"M","a","c","b","o","o","k"," ">>, <<"1","3">>, <<".","3">>, <<"\"">>, <<"'">>, <<" ">>, <<"\t">>, <<"2","5","6","G","B">>, <<"8","/","2","5","6","T","B">>, <<"4","2","m","m">>,
   <<"(","N","e","g","r","o",")">>, <<"W","i","f","i"," ">>, <<"w","i","-","f","i">>}

\* words of product names, colours among them
NameWords ==
  {<<"M","o","t","o">>, <<"G","3","5">>, <<"N","e","g","r","o">>, <<"i","P","h","o","n","e">>, <<"1","7">>, <<"A","z","u","l">>, <<"O","s","c","u","r","o">>, <<"X","i","a","o","m","i">>, <<"R","e","d","m","i">>, <<"1","4","C">>}

NameInputs == Texts(NamePieces, MaxPieces, <<>>) \cup Texts(NameWords, MaxWords, <<" ">>)

CallNormalizeBaseKey ==
  /\ output = NoCall
  /\ output' = Called("normalizeBaseKey", normalizeBaseKey(input))
  /\ UNCHANGED <<products, variants, images, lastImport, pc, loc, resp, passes, hist, input>>

CallRemoveColorFromName ==
  /\ output = NoCall
  /\ output' = Called("removeColorFromName", removeColorFromName(input))
  /\ UNCHANGED <<products, variants, images, lastImport, pc, loc, resp, passes, hist, input>>

NextNames ==
  \/ CallNormalizeBaseKey
  \/ CallRemoveColorFromName

SpecNames == InitAlone(NameInputs) /\ [][NextNames]_vars

MaxLines == 3
FillerLen == 150

\* a separator line as long as the window of detectUnmatchReason
Filler == [i \in 1..FillerLen |-> "="]

\* lines of price lists: priced, repeated, flagged, zero-priced, blank, nameless
PriceLines ==
  {<<"M","o","t","o"," ","G","3","5"," ","$","2","0","0">>, <<"M","o","t","o"," ","G","3","5",":"," ","$","2","1","0">>, <<"M","o","t","o"," ","G","3","5"," ","$","0">>, <<"M","O","T","O"," ","G","3","5"," ","5","G"," ","S","i","n"," ","S","t","o","c","k"," ","$","9","9">>,
   <<"N","o","k","i","a"," ","3","3","1","0"," ","s","i","n"," ","p","r","e","c","i","o">>, <<" "," ">>, <<"W","a","t","c","h"," ","4","2","m","m"," ","-"," ","$","1",",","2","5","0">>, <<"$","3","0","0">>, Filler}

PriceInputs == Texts(PriceLines, MaxLines, <<"\n">>)

\* canonical keys of products looked up in a price list
ReasonKeys ==
  {<<"M","o","t","o"," ","G","3","5">>, <<"M","o","t","o"," ","G","3","5"," ","5","G">>, <<"M","o","t","o"," ","G","3","5"," ","4","G">>, <<"M","o","t","o"," ","G","5","5"," ","8","/","2","5","6"," ","G","B">>, <<"N","o","k","i","a"," ","3","3","1","0">>, <<"W","a","t","c","h"," ","4","2"," ","m","m">>, <<"A","l","c","a","t","e","l">>}

CallParseUSDPrices ==
  /\ output = NoCall
  /\ output' = Called("parseUSDPrices", parseUSDPrices(input))
  /\ UNCHANGED <<products, variants, images, lastImport, pc, loc, resp, passes, hist, input>>

CallDetectUnmatchReason ==
  /\ output = NoCall
  /\ \E k \in ReasonKeys :
       output' = Called("detectUnmatchReason", [key |-> k, reason |-> detectUnmatchReason(k, input)])
  /\ UNCHANGED <<products, variants, images, lastImport, pc, loc, resp, passes, hist, input>>

NextPrices ==
  \/ CallParseUSDPrices
  \/ CallDetectUnmatchReason

SpecPrices == InitAlone(PriceInputs) /\ [][NextPrices]_vars

(***************************************************************************)
(* Properties.  The sequential properties speak of handler 1, the only     *)
(* one Spec runs.                                                          *)
(***************************************************************************)
\* the call has written its 200 response (writeJSON(w, 200, resp))
Done(h) == pc[h] = "done" /\ resp[h].status = 200
\* ... on the deterministic path
DoneXLSX(h) == Done(h) /\ ~loc[h].req.useOpenAI
\* ... with a spreadsheet excelize could open
DoneReadable(h) == DoneXLSX(h) /\ loc[h].req.data.readable
\* the products the store held when the call began
Before(h) == 1..Len(hist[h].pre.products)
\* the report as the response of the call shows it
Reported(h) == resp[h].report # Nil

\* C1: when a deterministic pass reaches Done, every product it upserted is
\* active, and every product of the store it touched in neither phase is
\* inactive and has its slug in the report's deprecated_slugs.
C1_DeprecationCorrect ==
  DoneXLSX(1) =>
    \A a \in hist[1].touched, b \in Before(1) \ hist[1].touched :
      /\ products[a].Active
      /\ ~products[b].Active
      /\ Reported(1)
      /\ products[b].Slug \in resp[1].report.deprecated_slugs

\* C2: at Done the reported deprecated set is exactly the set of slugs of
\* the products that are inactive in the store at that moment, its count is
\* the size of that set, and no product created or updated by the pass
\* (by a spreadsheet row or as a price-list-only entry) is in it.
C2_DeprecatedExact ==
  DoneReadable(1) =>
    /\ Reported(1)
    /\ resp[1].report.deprecated_slugs = GetInactiveSlugs(products)
    /\ resp[1].report.deprecated_count = Cardinality(GetInactiveSlugs(products))
    /\ \A a \in hist[1].touched :
         products[a].Slug \notin resp[1].report.deprecated_slugs

\* C3: a deterministic pass goes through its phases in the order Start,
\* DeactivateAll, ProcessSpreadsheet, ProcessPriceOnlyEntries,
\* StockZeroSweep, ComputeDeprecated, Done.
C3_PhaseOrder ==
  DoneReadable(1) =>
    hist[1].phases = <<"Start", "DeactivateAll", "ProcessSpreadsheet",
                       "ProcessPriceOnlyEntries", "StockZeroSweep",
                       "ComputeDeprecated", "Done">>

\* C4: when the spreadsheet cannot be opened the call changes nothing in
\* the store, whatever the price text holds, and all the counts it returns
\* are zero.
C4_UnreadableAborts ==
  (DoneXLSX(1) /\ ~loc[1].req.data.readable) =>
    /\ products = hist[1].pre.products
    /\ variants = hist[1].pre.variants
    /\ images = hist[1].pre.images
    /\ resp[1].created_products = 0 /\ resp[1].updated_products = 0
    /\ resp[1].created_variants = 0 /\ resp[1].updated_variants = 0
    /\ resp[1].unmatched = 0

\* the entries of the row log of call h
Rows(h) == 1..Len(hist[h].rows)
\* the stock the words of the stock cell stand for, given the stock the
\* variant had
StockByCell(stockStr, before) ==
  IF stockStr = <<>> THEN before
  ELSE IF Contains(ToLower(stockStr), <<"s","i","n">>) THEN 0
  ELSE IF Contains(ToLower(stockStr), <<"b","a","j","o">>) THEN 2
  ELSE 10
\* no row after the i-th targets the variant the i-th row targeted
LastForVariant(h, i) ==
  \A j \in Rows(h) : j > i => hist[h].rows[j].vid # hist[h].rows[i].vid

\* C5: a matched spreadsheet row whose (product, colour) variant already
\* exists leaves the variant's stock as it was when its stock cell is empty,
\* sets it to 0 when the cell contains "sin", else to 2 when it contains
\* "bajo", else to 10; and while no later row targets the same variant,
\* through the sweep and the price-only phase up to Done, the variant keeps
\* that stock.
C5_StockPreserved ==
  \A i \in Rows(1) :
    LET r == hist[1].rows[i]
    IN (r.usd > 0 /\ r.existed) =>
         /\ r.after = StockByCell(r.stockStr, r.before)
         /\ LastForVariant(1, i) => variants[r.vid].Stock = r.after

\* a finished pass in which a row with an empty stock cell met a variant
\* that had stock, and the variant still has it
C5_Witness ==
  /\ DoneReadable(1)
  /\ \E i \in Rows(1) :
       LET r == hist[1].rows[i]
       IN /\ r.usd > 0 /\ r.existed /\ r.stockStr = <<>> /\ r.before > 0
          /\ LastForVariant(1, i)
          /\ variants[r.vid].Stock = r.before

\* the rows of the workbook that carry a product: a name that is no section
\* title, and a column C that is not the header word "Color"
IsProductRow(row) ==
  /\ Cell(row, 2) # <<>>
  /\ ~isSectionTitle(Cell(row, 2))
  /\ ~EqualFold(Cell(row, 3), <<"C","o","l","o","r">>)
ProductRows(data) ==
  LET rows == flatRowsOf[data]
  IN SelectSeq(SubSeq([i \in 1..Len(rows) |-> rows[i].row], 1, Len(rows)), IsProductRow)
\* the entries of the row log that got a price, and those that got none
Priced(h) == {i \in Rows(h) : hist[h].rows[i].usd > 0}
Unpriced(h) == {i \in Rows(h) : hist[h].rows[i].usd <= 0}

\* C6: when a deterministic pass over a readable spreadsheet reaches Done,
\* every product row of the spreadsheet was handled, in order, and is
\* accounted for: either the product with the slug of its key and a variant
\* of the row's colour are in the store and the row is one of the created or
\* updated variants counted, or its key is in unmatched_items with a reason
\* and the row is one of the unmatched counted; no row is in neither.
C6_NoRowDropped ==
  DoneReadable(1) =>
    LET rows == ProductRows(loc[1].req.data)
        rep == lastImport
    IN /\ Len(hist[1].rows) = Len(rows)
       /\ rep.CreatedVariants + rep.UpdatedVariants = Cardinality(Priced(1))
       /\ rep.UnmatchedPrices = Cardinality(Unpriced(1))
       /\ resp[1].unmatched = Cardinality(Unpriced(1))
       /\ \A i \in 1..Len(rows) :
            LET info == rowInfoOf[rows[i]]
                pid == GetBySlug(products, info.slug)
            IN /\ hist[1].rows[i].key = info.baseKey
               /\ \/ /\ i \in Priced(1)
                     /\ pid # 0
                     /\ FindVariantByColor(variants, pid, info.color) # 0
                  \/ /\ i \in Unpriced(1)
                     /\ info.baseKey \in DOMAIN rep.UnmatchedItems
                     /\ info.baseKey \in DOMAIN resp[1].report.unmatched_items
                     /\ info.baseKey \in DOMAIN rep.UnmatchedReasons

\* a finished pass whose spreadsheet had rows of both kinds
C6_Witness ==
  /\ DoneReadable(1)
  /\ Len(hist[1].rows) = Len(ProductRows(loc[1].req.data))
  /\ Priced(1) # {} /\ Unpriced(1) # {}
  /\ \A i \in Unpriced(1) : hist[1].rows[i].key \in DOMAIN lastImport.UnmatchedItems

\* how many of the unpriced rows of the log carry the key
UnpricedWith(h, key) == Cardinality({i \in Unpriced(h) : hist[h].rows[i].key = key})
UnpricedKeys(h) == {hist[h].rows[i].key : i \in Unpriced(h)}
\* the step appends an unpriced row to the log of call h
UnpricedRowStep(h) ==
  /\ Len(hist'[h].rows) = Len(hist[h].rows) + 1
  /\ hist'[h].rows[Len(hist'[h].rows)].usd <= 0

\* the report of the deterministic pass groups the unpriced rows by key
UnmatchedGrouped ==
  pc[1] \in {"rows", "sweep", "deprecated"} =>
    LET rep == loc[1].rep
    IN /\ DOMAIN rep.UnmatchedItems = UnpricedKeys(1)
       /\ DOMAIN rep.UnmatchedReasons = UnpricedKeys(1)
       /\ \A k \in UnpricedKeys(1) :
            /\ rep.UnmatchedItems[k] = UnpricedWith(1, k)
            /\ rep.UnmatchedReasons[k] = reasonOf[loc[1].req.pricesText][k]
       /\ loc[1].unmatched = Cardinality(Unpriced(1))
\* ... and so does the report the response carries
UnmatchedReported ==
  DoneReadable(1) =>
    /\ DOMAIN resp[1].report.unmatched_items = UnpricedKeys(1)
    /\ \A k \in UnpricedKeys(1) :
         resp[1].report.unmatched_items[k] = UnpricedWith(1, k)
    /\ resp[1].unmatched = Cardinality(Unpriced(1))

\* C7: the N rows of one base key that get no price make one unmatched_items
\* entry for the key, with count N, and one unmatched_reasons entry, the
\* reason of the first of them, and add N to the unmatched count; a row
\* that gets no price changes no product, variant or image.
C7_UnmatchedGrouped ==
  /\ [](UnmatchedGrouped /\ UnmatchedReported)
  /\ [][UnpricedRowStep(1) =>
          /\ products' = products
          /\ variants' = variants
          /\ images' = images]_vars

\* a finished pass in which two rows of one key went unpriced and were
\* reported as one entry with count 2
C7_Witness ==
  /\ DoneReadable(1)
  /\ \E k \in UnpricedKeys(1) :
       /\ UnpricedWith(1, k) = 2
       /\ resp[1].report.unmatched_items[k] = 2
       /\ lastImport.UnmatchedReasons[k] \in {"sin_stock", "no_encontrado", "formato_diferente"}

\* the line of a price text names the key and marks it "Sin Stock" or
\* prices it at $0
MarksUnavailable(line, key) ==
  /\ HasAt(ToLower(normalizeBaseKey(TrimSpace(line))), 1, ToLower(key))
  /\ \/ Contains(ToLower(line), <<"s","i","n"," ","s","t","o","c","k">>)
     \/ HasSuffix(TrimSpace(line), <<"$","0">>)
\* the keys of spreadsheet rows the price text lists only as unavailable
Unavailable(text) ==
  {k \in RowKeys :
     /\ MapGet(priceMapOf[text], k) <= 0
     /\ \E i \in 1..Len(SplitLines(text)) : MarksUnavailable(SplitLines(text)[i], k)}
unavailableOf == Table([t \in PriceTexts |-> Unavailable(t)])

\* C8: a product the price text lists only as "Sin Stock" or at $0 gets no
\* price in the pass: none of its rows is priced by any tier of the
\* matcher, it is not taken as a price-list-only entry, and if it was in
\* the store it is inactive at Done; the products the text does price are
\* active at Done.
C8_UnavailableNeverPriced ==
  LET text == loc[1].req.pricesText
      gone == unavailableOf[text]
  IN /\ \A i \in Rows(1) : hist[1].rows[i].key \in gone => hist[1].rows[i].usd <= 0
     /\ hist[1].priceOnly \cap gone = {}
     /\ DoneReadable(1) =>
          /\ \A k \in gone :
               LET pid == GetBySlug(products, slugify(k))
               IN pid # 0 => ~products[pid].Active
          /\ \A k \in DOMAIN priceMapOf[text] :
               LET pid == GetBySlug(products, slugOf[k])
               IN priceMapOf[text][k] > 0 => pid # 0 /\ products[pid].Active

\* the images of a product, and its variants with their identifying data
ImagesOf(imgs, pid) == {imgs[i] : i \in {j \in 1..Len(imgs) : imgs[j].ProductID = pid}}
SkuEan(v) == [Color |-> v.Color, SKU |-> v.SKU, EAN |-> v.EAN]
\* every record of the store the call began with is still there
NothingDeleted(h) ==
  LET pre == hist[h].pre
  IN /\ Len(products) >= Len(pre.products)
     /\ \A i \in 1..Len(pre.products) : products[i].Slug = pre.products[i].Slug
     /\ Len(variants) >= Len(pre.variants)
     /\ \A i \in 1..Len(pre.variants) : variants[i].ProductID = pre.variants[i].ProductID
     /\ Len(images) >= Len(pre.images)
     /\ \A i \in 1..Len(pre.images) : images[i] = pre.images[i]
\* the product has the images, the variants and the SKUs and EANs it had
\* when the call began
HistoryKept(h, pid) ==
  LET pre == hist[h].pre
  IN /\ ImagesOf(images, pid) = ImagesOf(pre.images, pid)
     /\ ListVariants(variants, pid) = ListVariants(pre.variants, pid)
     /\ \A i \in ListVariants(variants, pid) : SkuEan(variants[i]) = SkuEan(pre.variants[i])

\* C9: an import pass, on either path, deletes no product, variant or
\* image, and every product that is inactive when the pass ends has the
\* images, the set of variants and the SKU and EAN of each variant that it
\* had before the pass.
C9_DeactivationNonDestructive ==
  /\ NothingDeleted(1)
  /\ pc[1] \in {"done", "panicked"} =>
       \A pid \in Before(1) : ~products[pid].Active => HistoryKept(1, pid)

\* a finished pass that left inactive a product that was active and had an
\* image and a variant with a SKU
C9_Witness ==
  /\ Done(1)
  /\ \E pid \in Before(1) :
       /\ hist[1].pre.products[pid].Active /\ ~products[pid].Active
       /\ ImagesOf(images, pid) # {}
       /\ \E i \in ListVariants(variants, pid) : variants[i].SKU # <<>>

\* call h has begun and has neither answered nor panicked
InFlight(h) == pc[h] \notin {"idle", "done", "panicked"}
\* call h has deactivated the catalog or upserted something
HasMutated(h) ==
  \/ \E i \in 1..Len(hist[h].phases) : hist[h].phases[i] = "DeactivateAll"
  \/ hist[h].touched # {}

\* C10: of two import requests the handler is serving, the one that came
\* second neither deactivates the catalog nor upserts anything before the
\* first has reached Done.
C10_OnePassInFlight ==
  \A a, b \in Handlers :
    (InFlight(a) /\ hist[b].pass > hist[a].pass) => ~HasMutated(b)

\* call h executes PASO 1 (MarkAllInactive) in the step
DeactivateAllStep(h) == pc[h] = "parse" /\ pc'[h] = "rows"
\* call h has executed PASO 1
HasDeactivated(h) ==
  \E i \in 1..Len(hist[h].phases) : hist[h].phases[i] = "DeactivateAll"

\* C11: when two deterministic passes run concurrently on one store, the
\* DeactivateAll of one pass spares nothing of what the other pass has
\* upserted so far: every product the pass in flight has matched and
\* upserted is inactive after the step (so a pass can reach Done with a
\* product it upserted inactive and listed in deprecated_slugs: C11_Witness).
C11_DeactivatedMidUpdate ==
  [][\A a, b \in Handlers :
       (a # b /\ InFlight(a) /\ hist[a].touched # {} /\ DeactivateAllStep(b)) =>
         \A pid \in hist[a].touched : ~products'[pid].Active]_vars

\* a pass that has reached Done while the other pass, which deactivated the
\* catalog, is still in flight: a product it matched and upserted is inactive
\* and is listed in the deprecated_slugs of its own report and of its response
C11_Witness ==
  \E a, b \in Handlers :
    /\ a # b /\ Done(a) /\ InFlight(b) /\ HasDeactivated(b)
    /\ \E pid \in hist[a].touched :
         /\ ~products[pid].Active
         /\ products[pid].Slug \in loc[a].rep.DeprecatedSlugs
         /\ Reported(a)
         /\ products[pid].Slug \in resp[a].report.deprecated_slugs

\* the fields of a product, and of a variant, an import writes
PassFields(p) ==
  [Slug |-> p.Slug, Active |-> p.Active, GrossPrice |-> p.GrossPrice,
   BasePrice |-> p.BasePrice, MarginPct |-> p.MarginPct]
StockFields(v) == [ProductID |-> v.ProductID, Color |-> v.Color, Stock |-> v.Stock]

\* C12: when a deterministic pass that reached Done is run again with the
\* same spreadsheet, price text, rate and margin, the second run leaves every
\* product (existence, active flag, gross price, base price, margin) and
\* every variant (existence, colour, stock) as the first run left them, and
\* creates no product and no variant.
C12_RetryIdempotent ==
  (DoneXLSX(1) /\ hist[1].retry) =>
    /\ Len(products) = Len(hist[1].pre.products)
    /\ \A i \in 1..Len(products) : PassFields(products[i]) = PassFields(hist[1].pre.products[i])
    /\ Len(variants) = Len(hist[1].pre.variants)
    /\ \A i \in 1..Len(variants) : StockFields(variants[i]) = StockFields(hist[1].pre.variants[i])
    /\ resp[1].created_products = 0
    /\ resp[1].created_variants = 0

\* the entries of the log of normalized variants of call h
Norms(h) == 1..Len(hist[h].norm)

\* C13: on the AI path a variant result for a (product, colour) that already
\* exists overwrites the stock of the variant only when the result carries a
\* stock text; with an empty stock text the variant keeps the stock it had.
C13_AIStockPreserved ==
  \A i \in Norms(1) :
    LET r == hist[1].norm[i]
    IN (~r.created /\ TrimSpace(r.stockStr) = <<>>) => r.after = r.before

\* the call went through the AI path and has written its 200 response
DoneAI(h) == Done(h) /\ loc[h].req.useOpenAI

\* C14: when a pass through the AI path reaches Done, every product that got
\* a positive price in the pass is active, and every product that was in
\* the store before the pass and was not upserted by it is inactive.
C14_AIActiveRecomputed ==
  DoneAI(1) =>
    /\ \A a \in hist[1].touched : products[a].Active
    /\ \A b \in Before(1) \ hist[1].touched : ~products[b].Active

\* call h was asked for the AI path and has read the credential
KeyRead(h) == loc[h].req.useOpenAI /\ pc[h] # "openai"
\* call h has changed nothing in the store and has run no phase of the
\* deterministic import
NothingImported(h) ==
  /\ products = hist[h].pre.products
  /\ variants = hist[h].pre.variants
  /\ images = hist[h].pre.images
  /\ hist[h].phases = <<"Start">>
  /\ hist[h].rows = <<>> /\ hist[h].priceOnly = {}
  /\ hist[h].touched = {} /\ hist[h].norm = <<>>

\* C15: when the AI path is asked for and OPENAI_API_KEY is not set, the
\* call fails at once with the configuration error: it is answered 500
\* with that message, no completion request was sent, the store is as it was
\* and no phase of the deterministic import has run.
C15_NoCredentialFailsFast ==
  (KeyRead(1) /\ ~loc[1].apiKey) =>
    /\ pc[1] = "done"
    /\ resp[1] = [status |-> 500, error |-> "openai_error",
                  message |-> "OPENAI_API_KEY no configurada"]
    /\ hist[1].batches = <<>>
    /\ NothingImported(1)

\* a call on the AI path with a readable spreadsheet and a price text, on a
\* store with products, that failed for want of the credential
C15_Witness ==
  /\ KeyRead(1) /\ ~loc[1].apiKey /\ pc[1] = "done"
  /\ loc[1].req.data.readable /\ loc[1].req.pricesText # <<>>
  /\ resp[1].status = 500
  /\ Len(products) > 0

\* the batches of call h that failed
FailedBatches(h) == {k \in 1..Len(hist[h].batches) : hist[h].batches[k] # "ok"}

\* C16: the batches of the AI path are sent one after the other, and a
\* request failure or timeout, an empty answer or an answer that does not
\* parse, on any batch k, fails the whole call: batch k is the last one
\* sent, the call is answered 500, what batches 1..k-1 returned is imported
\* nowhere, the store is as it was and no phase of the deterministic import
\* has run.
C16_BatchFailureFatal ==
  /\ Len(hist[1].batches) <= loc[1].totalBatches
  /\ pc[1] = "batch" => Len(hist[1].batches) = loc[1].batchNum
  /\ \A k \in FailedBatches(1) :
       /\ k = Len(hist[1].batches)
       /\ pc[1] = "done"
       /\ resp[1].status = 500 /\ resp[1].error = "openai_error"
       /\ resp[1].message \in {"error en lote", "respuesta vacia de OpenAI en lote",
                              "error parseando JSON de OpenAI en lote"}
       /\ NothingImported(1)

\* a call whose first batch was answered with products and whose second
\* batch failed, on a store with products
C16_Witness ==
  /\ Len(hist[1].batches) = 2
  /\ hist[1].batches[1] = "ok" /\ hist[1].batches[2] # "ok"
  /\ loc[1].normalized # EmptyMap
  /\ pc[1] = "done" /\ resp[1].status = 500
  /\ Len(products) > 0

\* call h is a deterministic pass over a readable spreadsheet with an empty
\* price text
EmptyTextPass(h) ==
  /\ pc[h] # "idle" /\ ~loc[h].req.useOpenAI
  /\ loc[h].req.data.readable /\ loc[h].req.pricesText = <<>>
\* every product row of the spreadsheet of call h went unpriced and is in
\* the unmatched items of the report, with a reason
AllUnmatched(h) ==
  /\ Len(hist[h].rows) = Len(ProductRows(loc[h].req.data))
  /\ \A i \in Rows(h) :
       /\ hist[h].rows[i].usd = 0
       /\ Reported(h)
       /\ hist[h].rows[i].key \in DOMAIN resp[h].report.unmatched_items
       /\ hist[h].rows[i].key \in DOMAIN lastImport.UnmatchedReasons
  /\ resp[h].unmatched = Len(hist[h].rows)

\* C17: a deterministic pass over a readable spreadsheet with an empty price
\* text does not abort and reaches Done with status 200; then every product
\* row is in unmatched_items with a reason, no product or variant was
\* created or updated, and every product the store held is inactive and in
\* deprecated_slugs.
C17_EmptyPricesAllUnmatched ==
  EmptyTextPass(1) =>
    /\ pc[1] # "panicked"
    /\ pc[1] = "done" =>
         /\ resp[1].status = 200
         /\ AllUnmatched(1)
         /\ resp[1].created_products = 0 /\ resp[1].updated_products = 0
         /\ resp[1].created_variants = 0 /\ resp[1].updated_variants = 0
         /\ variants = hist[1].pre.variants
         /\ Len(products) = Len(hist[1].pre.products)
         /\ \A i \in 1..Len(products) :
              /\ products[i] = [hist[1].pre.products[i] EXCEPT !.Active = FALSE]
              /\ products[i].Slug \in resp[1].report.deprecated_slugs

\* C18: the report a call returns is the report of that call: its timestamp
\* is that of the call, and its unmatched items, deprecated count and
\* deprecated slugs are those the call computed; it is never the report of
\* an earlier call, also when the spreadsheet was unreadable or the call
\* took the AI path.
C18_ReportPerCall ==
  (Done(1) /\ Reported(1)) =>
    /\ resp[1].report.timestamp = hist[1].pass
    /\ resp[1].report = ReportOf(loc[1].rep)

\* C19: an inactive product is shown to no end user: in every state the
\* storefront listings (home, product list, search: ProductRepo.List with no
\* IncludeInactive) hold no product with active = false, and the detail page
\* of no slug renders a product with active = false.
C19_InactiveHidden ==
  /\ \A i \in List(products, FALSE) : products[i].Active
  /\ \A i \in 1..Len(products) :
       LET shown == handleProduct(products, products[i].Slug)
       IN shown # 0 => products[shown].Active

\* the product has the prices that usd gives at the rate and margin of the
\* request of call h (BasePrice in hundredths)
PricedAt(h, pid, usd) ==
  /\ products[pid].GrossPrice = usd * loc[h].req.fxRate
  /\ products[pid].BasePrice = usd * loc[h].req.fxRate * (100 + loc[h].req.margin)
  /\ products[pid].MarginPct = loc[h].req.margin
\* no row after the i-th upserts the product the i-th row upserted
LastForProduct(h, i) ==
  \A j \in Rows(h) : j > i => hist[h].rows[j].pid # hist[h].rows[i].pid
\* the call is the end-to-end scenario: the row ("Moto G55 8/256 GB 5G DS",
\* "Negro", "Disponible"), the price line "Moto G55 8/256 GB 5G DS   $255",
\* fxRate 1485, margin 20, on an empty store
Scenario(h) ==
  /\ DoneReadable(h)
  /\ loc[h].req = Request(Readable(<<Sheet1, Sheet5>>), PricesA,
                          [fxRate |-> 1485, margin |-> 20], FALSE)
  /\ hist[h].pre.products = <<>>
\* the products named "Moto G55 8/256 GB 5G DS"
MotoG55 ==
  {i \in 1..Len(products) :
     products[i].Name = <<"M","o","t","o"," ","G","5","5"," ","8","/","2","5","6"," ","G","B"," ","5","G"," ","D","S">>}

\* C20: every product a deterministic pass creates or updates, by a
\* spreadsheet row or as a price-list-only entry, has GrossPrice = usd *
\* fxRate and BasePrice = GrossPrice * (1 + marginPct/100), usd being the
\* price its key got in the pass; and the end-to-end scenario ends with one
\* product "Moto G55 8/256 GB 5G DS", created by the pass, with gross
\* 378675 and base price 454410, and one variant, "Negro", with stock 10.
C20_UpsertPricing ==
  /\ \A i \in Rows(1) :
       LET r == hist[1].rows[i]
       IN (r.usd > 0 /\ LastForProduct(1, i)) =>
            /\ r.usd \in rowPriceOf[loc[1].req.pricesText][r.key]
            /\ PricedAt(1, r.pid, r.usd)
  /\ \A k \in hist[1].priceOnly :
       /\ GetBySlug(products, slugOf[k]) # 0
       /\ PricedAt(1, GetBySlug(products, slugOf[k]), loc[1].priceUSD[k])
  /\ Scenario(1) =>
       /\ Cardinality(MotoG55) = 1
       /\ \A pid \in MotoG55 :
            /\ products[pid].GrossPrice = 378675
            /\ products[pid].BasePrice = 45441000
            /\ products[pid].Active
            /\ products[pid].Slug \in {lastImport.CreatedProductSlugs[j] :
                                         j \in 1..Len(lastImport.CreatedProductSlugs)}
            /\ Cardinality(ListVariants(variants, pid)) = 1
            /\ \A v \in ListVariants(variants, pid) :
                 /\ variants[v].Color = <<"N","e","g","r","o">>
                 /\ variants[v].Stock = 10

\* the end-to-end scenario has reached Done and its row got 255 USD
C20_Witness ==
  /\ Scenario(1)
  /\ \E i \in Rows(1) :
       /\ hist[1].rows[i].usd = 255
       /\ hist[1].rows[i].color = <<"N","e","g","r","o">>
       /\ hist[1].rows[i].pid \in MotoG55
  /\ hist[1].priceOnly # {}

\* a price map with two keys of one comparison form
TwoSuffixes ==
  MapPut(MapPut(EmptyMap, <<"M","o","t","o"," ","G","3","5"," ","4","G">>, 190), <<"M","o","t","o"," ","G","3","5"," ","5","G">>, 200)

\* C21: the matcher is a function of the key and the price map: the price a
\* row got is the only price the lookup can return for its key and the
\* price map of the call, also when several keys qualify in the partial
\* tier; and for the key "Moto G35" the map {"Moto G35 4G": 190,
\* "Moto G35 5G": 200}, two keys of one comparison form, gives one price.
C21_MatcherPure ==
  /\ \A i \in Rows(1) :
       rowPriceOf[loc[1].req.pricesText][hist[1].rows[i].key] = {hist[1].rows[i].usd}
  /\ Rows(1) # {} => Cardinality(matchUSDPrice(TwoSuffixes, <<"M","o","t","o"," ","G","3","5">>)) = 1

\* C22: normalizing a normalized name changes nothing: whatever name
\* normalizeBaseKey was called on, calling it on its result returns that result.
C22_NormalizeIdempotent ==
  output.fn = "normalizeBaseKey" => normalizeBaseKey(output.val) = output.val

\* the colour words among NameWords, and a word list without its trailing
\* colour: the two-word colour if it ends with it, else the one colour word
ColorWords == {<<"N","e","g","r","o">>, <<"A","z","u","l">>, <<"O","s","c","u","r","o">>}
TwoWordColor == <<<<"A","z","u","l">>, <<"O","s","c","u","r","o">>>>
WithoutColor(ws) ==
  IF Len(ws) >= 2 /\ SubSeq(ws, Len(ws) - 1, Len(ws)) = TwoWordColor THEN SubSeq(ws, 1, Len(ws) - 2)
  ELSE IF Len(ws) >= 1 /\ ws[Len(ws)] \in ColorWords THEN SubSeq(ws, 1, Len(ws) - 1)
  ELSE ws
WordsOnly(s) ==
  /\ \A i \in 1..Len(Fields(s)) : Fields(s)[i] \in NameWords
  /\ Join(Fields(s), <<" ">>) = s

\* C23: removeColorFromName returns the name without its trailing colour,
\* be it one word or the two-word phrase, and returns a name that does not
\* end with a colour word with all its words.
C23_StripColor ==
  (output.fn = "removeColorFromName" /\ WordsOnly(input))
    => output.val = Join(WithoutColor(Fields(input)), <<" ">>)

\* what a reader sees in each line of PriceLines: an exclusion marker, a
\* price token, the product it names and the amount
Seen(marker, token, key, usd) == [marker |-> marker, token |-> token, key |-> key, usd |-> usd]
Meaning ==
  (<<"M","o","t","o"," ","G","3","5"," ","$","2","0","0">> :> Seen(FALSE, TRUE, <<"M","o","t","o"," ","G","3","5">>, 200)) @@
  (<<"M","o","t","o"," ","G","3","5",":"," ","$","2","1","0">> :> Seen(FALSE, TRUE, <<"M","o","t","o"," ","G","3","5">>, 210)) @@
  (<<"M","o","t","o"," ","G","3","5"," ","$","0">> :> Seen(FALSE, TRUE, <<"M","o","t","o"," ","G","3","5">>, 0)) @@
  (<<"M","O","T","O"," ","G","3","5"," ","5","G"," ","S","i","n"," ","S","t","o","c","k"," ","$","9","9">> :> Seen(TRUE, TRUE, <<"M","O","T","O"," ","G","3","5"," ","5","G"," ","S","i","n"," ","S","t","o","c","k">>, 99)) @@
  (<<"N","o","k","i","a"," ","3","3","1","0"," ","s","i","n"," ","p","r","e","c","i","o">> :> Seen(TRUE, FALSE, <<"N","o","k","i","a"," ","3","3","1","0"," ","s","i","n"," ","p","r","e","c","i","o">>, 0)) @@
  (<<" "," ">> :> Seen(FALSE, FALSE, <<>>, 0)) @@
  (<<"W","a","t","c","h"," ","4","2","m","m"," ","-"," ","$","1",",","2","5","0">> :> Seen(FALSE, TRUE, <<"W","a","t","c","h"," ","4","2"," ","m","m">>, 1250)) @@
  (<<"$","3","0","0">> :> Seen(FALSE, TRUE, <<>>, 300)) @@
  (Filler :> Seen(FALSE, FALSE, Filler, 0)) @@
  (<<>> :> Seen(FALSE, FALSE, <<>>, 0))

\* the lines with a price token and no exclusion marker, and those among
\* them with a name and a positive amount
TokenLines == {l \in DOMAIN Meaning : Meaning[l].token /\ ~Meaning[l].marker}
PricedLines == {l \in TokenLines : Meaning[l].key # <<>> /\ Meaning[l].usd > 0}

\* the map in which the last of the counted lines of a key gives its value
LastWins(lines, counted) ==
  LET m[i \in 0..Len(lines)] ==
        IF i = 0 THEN <<>>
        ELSE IF lines[i] \in counted
             THEN (Meaning[lines[i]].key :> Meaning[lines[i]].usd) @@ m[i - 1]
             ELSE m[i - 1]
  IN m[Len(lines)]

Parsed == output.fn = "parseUSDPrices"

OccursAt(t, p, i) == i + Len(p) - 1 <= Len(t) /\ SubSeq(t, i, i + Len(p) - 1) = p
Places(t, p) == {i \in 1..Len(t) : OccursAt(t, p, i)}
FirstPlace(t, p) == IF Places(t, p) = {} THEN 0 ELSE MinOf(Places(t, p))
\* the first two words of a key, lower case; empty for a one-word key
TwoTokens(k) ==
  IF Len(Fields(k)) >= 2 THEN ToLower(Fields(k)[1] \o <<" ">> \o Fields(k)[2]) ELSE <<>>
SinStock == <<"s","i","n"," ","s","t","o","c","k">>
\* "sin stock" lies whole within the FillerLen characters from position i on
FlaggedFrom(t, i) ==
  \E j \in Places(t, SinStock) : j >= i /\ j + Len(SinStock) - 1 <= i + FillerLen - 1

Detected == output.fn = "detectUnmatchReason"
KeyPlace == FirstPlace(ToLower(input), ToLower(output.val.key))
TwoPlace ==
  IF TwoTokens(output.val.key) = <<>> THEN 0
  ELSE FirstPlace(ToLower(input), TwoTokens(output.val.key))

\* C27: detectUnmatchReason returns one of four reasons, the first that
\* applies: no_encontrado when neither the key nor its first two words occur
\* in the text, formato_diferente when only the first two words occur,
\* sin_stock when the key occurs and "sin stock" lies within 150 characters
\* from its first occurrence, precio_invalido when the key occurs otherwise.
C27_ReasonFirstApplicable ==
  Detected =>
    /\ output.val.reason \in {"no_encontrado", "formato_diferente", "sin_stock", "precio_invalido"}
    /\ output.val.reason = "no_encontrado" <=> (KeyPlace = 0 /\ TwoPlace = 0)
    /\ output.val.reason = "formato_diferente" <=> (KeyPlace = 0 /\ TwoPlace > 0)
    /\ output.val.reason = "sin_stock" <=> (KeyPlace > 0 /\ FlaggedFrom(ToLower(input), KeyPlace))
    /\ output.val.reason = "precio_invalido" <=> (KeyPlace > 0 /\ ~FlaggedFrom(ToLower(input), KeyPlace))

\* a key that occurs, with "sin stock" in the text but beyond the window
C27_Witness ==
  /\ Detected
  /\ KeyPlace > 0
  /\ \E j \in Places(ToLower(input), SinStock) : j > KeyPlace + FillerLen
  /\ output.val.reason = "precio_invalido"

\* the variants the store held when the call began
VariantsBefore(h) == 1..Len(hist[h].pre.variants)
\* the matched rows of the call that named the colour of variant v of the
\* store it began with
RowsNaming(h, v) ==
  {i \in Rows(h) :
     /\ hist[h].rows[i].usd > 0
     /\ hist[h].rows[i].pid = hist[h].pre.variants[v].ProductID
     /\ ToLower(TrimSpace(hist[h].rows[i].color)) = ToLower(TrimSpace(hist[h].pre.variants[v].Color))}
SameVariant(h, v) ==
  /\ v <= Len(variants)
  /\ variants[v].ProductID = hist[h].pre.variants[v].ProductID
  /\ variants[v].Color = hist[h].pre.variants[v].Color

\* the products a matched spreadsheet row of the call upserted
RowTouched(h) == {hist[h].rows[i].pid : i \in {j \in Rows(h) : hist[h].rows[j].usd > 0}}

PricedBy(h, i, k) ==
  /\ hist[h].rows[i].usd > 0
  /\ hist[h].rows[i].usd \in matchUSDPrice(k :> loc[h].priceUSD[k], hist[h].rows[i].key)
UsedKeys(h) == {k \in DOMAIN loc[h].priceUSD : \E i \in Rows(h) : PricedBy(h, i, k)}

\* C26: when a deterministic pass reaches Done, no key of the price map
\* whose price a spreadsheet row used (exact, normalized or partial match)
\* was taken as a price-list-only entry, and every key no row used was, and
\* its product is active.
C26_PriceOnlyUntouchedKeys ==
  DoneXLSX(1) =>
    /\ hist[1].priceOnly \cap UsedKeys(1) = {}
    /\ \A k \in DOMAIN loc[1].priceUSD \ UsedKeys(1) :
         /\ k \in hist[1].priceOnly
         /\ \E p \in 1..Len(products) : products[p].Slug = slugify(k) /\ products[p].Active

\* C28: no row of a readable spreadsheet aborts a deterministic pass: the
\* pass is never left by a panic, whatever the number of cells of its rows,
\* so that its later rows, the sweep and the deprecated set still run.
C28_RowsNeverAbort ==
  (~loc[1].req.useOpenAI /\ loc[1].req.data.readable) => pc[1] # "panicked"

\* no product has two variants of one colour (trimmed, case ignored)
NoTwins(vs) ==
  \A i, j \in 1..Len(vs) :
    (i # j /\ vs[i].ProductID = vs[j].ProductID)
      => ToLower(TrimSpace(vs[i].Color)) # ToLower(TrimSpace(vs[j].Color))

\* C29: if no product had two variants of one colour when a deterministic
\* pass began, none has at any point of the pass, after any number of its
\* spreadsheet rows and price-list-only entries: rows of one product and
\* one colour, given in column C or inferred from the name, share a variant.
C29_OneVariantPerColor ==
  (~loc[1].req.useOpenAI /\ pc[1] # "idle" /\ NoTwins(hist[1].pre.variants))
    => NoTwins(variants)

\* a pass with two rows of one variant, the colour spelled differently, and
\* a price-list-only entry
C29_Witness ==
  /\ DoneReadable(1)
  /\ NoTwins(hist[1].pre.variants)
  /\ hist[1].priceOnly # {}
  /\ \E i, j \in Rows(1) :
       /\ i < j
       /\ hist[1].rows[i].vid > 0
       /\ hist[1].rows[i].vid = hist[1].rows[j].vid
       /\ hist[1].rows[i].color # hist[1].rows[j].color

\* the sum of the counts of a map
SumOf(m) ==
  LET s[S \in SUBSET DOMAIN m] ==
        IF S = {} THEN 0
        ELSE m[CHOOSE k \in S : TRUE] + s[S \ {CHOOSE k \in S : TRUE}]
  IN s[DOMAIN m]
\* the data rows of the spreadsheet of the call, and those a price was found for
DataRows(h) ==
  {i \in 1..Len(flatRowsOf[loc[h].req.data]) :
     rowInfoOf[flatRowsOf[loc[h].req.data][i].row].kind = "data"}
Matched(h) == {i \in Rows(h) : hist[h].rows[i].usd > 0}

\* C30: when a deterministic pass over a readable spreadsheet reaches Done,
\* in the report of its spreadsheet phase unmatched is the sum of the counts
\* of unmatched_items, unmatched_items and unmatched_reasons have the same
\* keys, created plus updated products and created plus updated variants
\* both equal the number of matched data rows, and matched rows plus
\* unmatched is the number of data rows.
C30_ReportAccounting ==
  DoneReadable(1) =>
    /\ loc[1].rep.UnmatchedPrices = SumOf(loc[1].rep.UnmatchedItems)
    /\ DOMAIN loc[1].rep.UnmatchedItems = DOMAIN loc[1].rep.UnmatchedReasons
    /\ loc[1].rep.CreatedProducts + loc[1].rep.UpdatedProducts = Cardinality(Matched(1))
    /\ loc[1].rep.CreatedVariants + loc[1].rep.UpdatedVariants = Cardinality(Matched(1))
    /\ Cardinality(Matched(1)) + loc[1].rep.UnmatchedPrices = Cardinality(DataRows(1))
    /\ resp[1].unmatched = loc[1].rep.UnmatchedPrices

\* a pass with two matched colour rows of one product and two unmatched
\* rows of another
C30_Witness ==
  /\ DoneReadable(1)
  /\ \E i, j \in Matched(1) : i # j /\ hist[1].rows[i].pid = hist[1].rows[j].pid
  /\ \E k \in DOMAIN loc[1].rep.UnmatchedItems : loc[1].rep.UnmatchedItems[k] = 2
  /\ loc[1].rep.CreatedProducts + loc[1].rep.UpdatedProducts > Cardinality({hist[1].rows[i].pid : i \in Matched(1)})

====
